---- MODULE Spec2Model ----
(***************************************************************************)
(* A model of snarkpack's aggregation engine: the PairingCheck batch, the  *)
(* Fiat-Shamir transcript, the KZG polynomial helpers and the prover       *)
(* (aggregate_proofs, prove_tipp_mipp, gipa_tipp_mipp).                    *)
(*                                                                         *)
(* Algebra.  The curve is replaced by a toy pairing-friendly setting that  *)
(* keeps the structure the code relies on:                                 *)
(*   Fr  = Z_P                      (scalar field, P prime)                *)
(*   G1, G2 = cyclic of order P, written by discrete logarithm 0..P-1      *)
(*   Fqk = {0} u Fqk*, Fqk* = Z_P x Z_M written <<g, c>> additively:       *)
(*         g is the component in the order-P subgroup GT, c the cofactor   *)
(*         component that the final exponentiation kills.                  *)
(***************************************************************************)
EXTENDS Integers, Sequences, FiniteSets, TLC

\* Order of the scalar field Fr and of G1, G2, GT (a prime).
P == 5
\* Order of the cofactor part of Fqk*: final exponentiation raises to M.
M == 2

Fr == 0..(P - 1)
G1 == 0..(P - 1)
G2 == 0..(P - 1)

\* Option<T>: <<>> is None, <<v>> is Some(v).
None == <<>>
Some(v) == <<v>>

RECURSIVE Pow2(_)
Pow2(k) == IF k = 0 THEN 1 ELSE 2 * Pow2(k - 1)

(***************************************************************************)
(* Scalar field Fr                                                         *)
(***************************************************************************)
FrAdd(x, y) == (x + y) % P
FrMul(x, y) == (x * y) % P
FrSquare(x) == (x * x) % P
FrNeg(x) == (P - x) % P

\* Field::inverse: None for zero.
FrInverse(x) == IF x = 0 THEN None ELSE Some(CHOOSE y \in 1..(P - 1) : (x * y) % P = 1)

RECURSIVE FrPow(_, _)
FrPow(x, e) == IF e = 0 THEN 1 ELSE FrMul(x, FrPow(x, e - 1))

(***************************************************************************)
(* KZG polynomial helpers (prover.rs)                                      *)
(***************************************************************************)

\* The product-form loop without the squaring of power_zr.
RECURSIVE EvalProductLoopNoSquare(_, _, _, _)
EvalProductLoopNoSquare(transcript, i, power_zr, res) ==
    IF i > Len(transcript) THEN res
    ELSE EvalProductLoopNoSquare(transcript, i + 1, power_zr,
                                 FrMul(res, FrAdd(1, FrMul(transcript[i], power_zr))))

\* The loop `for x in &transcript[1..]` of the product form; i is the
\* 1-based index of the next challenge.
RECURSIVE EvalProductLoop(_, _, _, _)
EvalProductLoop(transcript, i, power_zr, res) ==
    IF i > Len(transcript) THEN res
    ELSE LET p2 == FrSquare(power_zr)
         IN  EvalProductLoop(transcript, i + 1, p2,
                             FrMul(res, FrAdd(1, FrMul(transcript[i], p2))))

\* transcript[0] on an empty slice is an index panic: None stands for it.
polynomial_evaluation_product_form_from_transcript(transcript, z, r_shift) ==
    IF Len(transcript) = 0 THEN None
    ELSE LET power_zr == FrMul(z, r_shift)
         IN  Some(EvalProductLoop(transcript, 2, power_zr,
                                  FrAdd(1, FrMul(transcript[1], power_zr))))

\* The inner loop `for j in 0..n`: pushes coefficients[j] * (x * power_2_r).
RECURSIVE CoeffInner(_, _, _, _)
CoeffInner(coefficients, n, j, xp) ==
    IF j > n THEN coefficients
    ELSE CoeffInner(Append(coefficients, FrMul(coefficients[j], xp)), n, j + 1, xp)

\* The outer loop over transcript.iter().enumerate(); i is 1-based.
RECURSIVE CoeffOuter(_, _, _, _)
CoeffOuter(transcript, i, power_2_r, coefficients) ==
    IF i > Len(transcript) THEN coefficients
    ELSE LET pw == IF i > 1 THEN FrSquare(power_2_r) ELSE power_2_r
         IN  CoeffOuter(transcript, i + 1, pw,
                        CoeffInner(coefficients, Len(coefficients), 1,
                                   FrMul(transcript[i], pw)))

polynomial_coefficients_from_transcript(transcript, r_shift) ==
    CoeffOuter(transcript, 1, r_shift, <<1>>)

\* Reference semantics of a coefficient vector: sum coeffs[i] * z^(i-1).
RECURSIVE EvaluateFrom(_, _, _)
EvaluateFrom(coeffs, i, z) ==
    IF i > Len(coeffs) THEN 0
    ELSE FrAdd(FrMul(coeffs[i], FrPow(z, i - 1)), EvaluateFrom(coeffs, i + 1, z))

Evaluate(coeffs, z) == EvaluateFrom(coeffs, 1, z)

(***************************************************************************)
(* Groups and pairing                                                      *)
(***************************************************************************)
FqkOne == <<0, 0>>
FqkZero == <<P, M>>
\* one + one in the field Fqk: an element of the base field, hence in the
\* kernel of the final exponentiation, and different from one.
FqkTwo == <<0, 1>>

Fqk == {FqkZero} \cup ((0..(P - 1)) \X (0..(M - 1)))
\* The target group GT: the image of the final exponentiation.
GT == {<<g, 0>> : g \in 0..(P - 1)}

\* Field multiplication in Fqk.
FqkMul(x, y) ==
    IF x = FqkZero \/ y = FqkZero THEN FqkZero
    ELSE <<(x[1] + y[1]) % P, (x[2] + y[2]) % M>>

\* Field::pow by the integer representation e of a scalar.
FqkPow(x, e) ==
    IF e = 0 THEN FqkOne
    ELSE IF x = FqkZero THEN FqkZero
    ELSE <<(x[1] * e) % P, (x[2] * e) % M>>

\* PairingEngine::final_exponentiation: None for zero, else the M-th power,
\* which lies in GT.
final_exponentiation(x) ==
    IF x = FqkZero THEN None ELSE Some(<<(M * x[1]) % P, 0>>)

\* Scalar multiplication of a point.
G1Mul(a, s) == (a * s) % P

\* PairingEngine::miller_loop of one pair: one for a point at infinity,
\* else a representative of the pairing value up to a cofactor factor.
miller_loop(a, b) ==
    IF a = 0 \/ b = 0 THEN FqkOne
    ELSE <<(a * b) % P, (a + b) % M>>

RECURSIVE FqkProduct(_)
FqkProduct(xs) ==
    IF xs = <<>> THEN FqkOne ELSE FqkMul(FqkProduct(Tail(xs)), Head(xs))

(***************************************************************************)
(* PairingCheck (pairing_check.rs)                                         *)
(***************************************************************************)
\* Number of values of the u8 counter non_randomized.
U8Mod == 256

Check(l, r, n) == [left |-> l, right |-> r, non_randomized |-> n]

new == Check(FqkOne, FqkOne, 0)

new_invalid == Check(FqkOne, FqkTwo, 2)

from_pair(result, exp) == Check(result, exp, 1)

from_products(lefts, right) == from_pair(FqkProduct(lefts), right)

\* The map / fold / reduce over `it`: the product of the Miller loops of
\* (coeff * a, b).
RECURSIVE MillerOut(_, _)
MillerOut(it, coeff) ==
    IF it = <<>> THEN FqkOne
    ELSE FqkMul(MillerOut(Tail(it), coeff),
                miller_loop(G1Mul(Head(it)[1], coeff), Head(it)[2]))

\* A rand that leaves the expected value unscaled.
rand_unscaled_out(coeff, it, out) == Check(MillerOut(it, coeff), out, 0)

\* PairingCheck::rand with the coefficient rand_fr returned.
rand(coeff, it, out) ==
    Check(MillerOut(it, coeff),
          IF out # FqkOne THEN FqkPow(out, coeff) ELSE out,
          0)

\* A mul_if_not_one that returns early when left is one, without taking
\* over right.
mul_if_not_one_keeps_left(left, right) ==
    IF left = FqkOne \/ right = FqkOne THEN left ELSE FqkMul(left, right)

mul_if_not_one(left, right) ==
    IF left = FqkOne THEN right
    ELSE IF right = FqkOne THEN left
    ELSE FqkMul(left, right)

\* u8 addition: None stands for the overflow panic of a build with
\* overflow checks (debug); without them (release) the sum wraps.
U8Add(x, y, build) ==
    IF x + y < U8Mod THEN Some(x + y)
    ELSE IF build = "debug" THEN None
    ELSE Some((x + y) % U8Mod)

\* PairingCheck::merge: self afterwards, and whether the counter addition
\* panicked (left and right are already updated when it does).
merge(self, p2, build) ==
    LET n == U8Add(self.non_randomized, p2.non_randomized, build)
    IN  [self |-> Check(mul_if_not_one(self.left, p2.left),
                        mul_if_not_one(self.right, p2.right),
                        IF n = None THEN self.non_randomized ELSE n[1]),
         panicked |-> (n = None)]

\* PairingCheck::verify: "true", "false", or "panic" when the unwrap of the
\* final exponentiation fails.
verify(self) ==
    IF self.non_randomized > 1 THEN "false"
    ELSE LET fe == final_exponentiation(self.left)
         IN  IF fe = None THEN "panic"
             ELSE IF fe[1] = self.right THEN "true" ELSE "false"

(***************************************************************************)
(* Fiat-Shamir transcript (transcript.rs over RollingKeccakTranscript)     *)
(***************************************************************************)
\* Width of a digest of the hash, in bits.
DigestBits == 4
\* F::CAPACITY of the transcript's field: get_challenge keeps that many bits.
Capacity == 2

\* Values that are appended, tagged with their type.
FrElem(v) == [t |-> "Fr", v |-> v]
G1Elem(a) == [t |-> "G1", v |-> a]
G2Elem(b) == [t |-> "G2", v |-> b]
FqkElem(x) == [t |-> "Fqk", v |-> x]
PairElem(x, y) == [t |-> "pair", v |-> <<x, y>>]

\* CanonicalSerialize: the bytes of an element (one number stands for the
\* encoding of one field element or point; a tuple is the concatenation).
RECURSIVE serialize(_)
serialize(element) ==
    CASE element.t = "Fr" -> <<element.v>>
      [] element.t = "G1" -> <<P + element.v>>
      [] element.t = "G2" -> <<2 * P + element.v, 1>>
      [] element.t = "Fqk" -> <<3 * P + element.v[1], element.v[2]>>
      [] element.t = "pair" -> serialize(element.v[1]) \o serialize(element.v[2])

\* The hash of a byte string, as a digest of DigestBits bits.
RECURSIVE KeccakAbsorb(_, _, _)
KeccakAbsorb(input, i, h) ==
    IF i > Len(input) THEN h
    ELSE KeccakAbsorb(input, i + 1, (5 * h + 3 * input[i] + i) % Pow2(DigestBits))

Keccak256(input) == KeccakAbsorb(input, 1, 7)

\* RollingKeccakTranscript::new(): both state parts zero, counter zero.
new_keccak_transcript ==
    [state_part_0 |-> 0, state_part_1 |-> 0, challenge_counter |-> 0]

\* Transcript::commit_bytes: both state parts are rehashed with the bytes;
\* the challenge counter is left alone.
commit_bytes(tr, bytes) ==
    [tr EXCEPT
        !.state_part_0 = Keccak256(<<0, tr.state_part_0, tr.state_part_1>> \o bytes),
        !.state_part_1 = Keccak256(<<1, tr.state_part_0, tr.state_part_1>> \o bytes)]

\* LocalTranscript::append: serialize, then commit the bytes.
append(tr, element) == commit_bytes(tr, serialize(element))

\* A get_challenge that also rehashes the state parts with the digest, so
\* that a draw changes what later appends lead to.
get_challenge_rehashing(tr) ==
    LET d == Keccak256(<<2, tr.state_part_0, tr.state_part_1, tr.challenge_counter>>)
    IN  [el |-> d % Pow2(Capacity),
         tr |-> [state_part_0 |-> Keccak256(<<0, tr.state_part_0, d>>),
                 state_part_1 |-> Keccak256(<<1, tr.state_part_1, d>>),
                 challenge_counter |-> tr.challenge_counter + 1]]

\* Prng::get_challenge: hash of the state parts and the counter, shaved to
\* Capacity bits; only the counter advances.
get_challenge(tr) ==
    [el |-> Keccak256(<<2, tr.state_part_0, tr.state_part_1, tr.challenge_counter>>)
                % Pow2(Capacity),
     tr |-> [tr EXCEPT !.challenge_counter = tr.challenge_counter + 1]]

\* Field::from_random_bytes on the little-endian repr: None when the value
\* is not below the modulus.
from_random_bytes(v) == IF v < P THEN Some(v) ELSE None

\* LocalTranscript::challenge_scalar: [t: the drawn scalar as an Option
\* (None: the unwrap panics), tr: the transcript afterwards].
challenge_scalar(tr) ==
    LET q == get_challenge(tr)
    IN  [t |-> from_random_bytes(q.el), tr |-> q.tr]

(***************************************************************************)
(* Groups, keys, commitments and inner products used by the aggregator     *)
(* (lib.rs, commitment.rs, ip.rs, srs.rs)                                  *)
(***************************************************************************)
G1Add(a, b) == (a + b) % P
G2Mul(b, s) == (b * s) % P

\* The pairing e(a, b), a value of GT.
pairing(a, b) == final_exponentiation(miller_loop(a, b))[1]

\* usize::is_power_of_two
RECURSIVE is_power_of_two(_)
is_power_of_two(k) ==
    IF k <= 0 THEN FALSE
    ELSE IF k = 1 THEN TRUE
    ELSE IF k % 2 = 1 THEN FALSE
    ELSE is_power_of_two(k \div 2)

\* The orders in which the k tasks of a parallel loop can complete.
Schedules(k) ==
    {s \in [1..k -> 1..k] : \A i, j \in 1..k : i # j => s[i] # s[j]}

\* The schedule in which the tasks complete in index order.
InOrder(k) == [i \in 1..k |-> i]

\* For the longer loops: the schedules in which the tasks complete in index
\* order or in reverse order, starting at any task.
RotatedSchedules(k) ==
    {[i \in 1..k |-> ((i + d - 1) % k) + 1] : d \in 0..(k - 1)}
    \cup {[i \in 1..k |-> ((k - i + d) % k) + 1] : d \in 0..(k - 1)}

\* A schedule of k tasks cut down to the tasks 1..m.
RECURSIVE Restrict(_, _)
Restrict(s, m) ==
    IF Len(s) = 0 THEN <<>>
    ELSE IF Head(s) <= m THEN <<Head(s)>> \o Restrict(Tail(s), m)
    ELSE Restrict(Tail(s), m)

\* The values in the order the schedule completes them.
Completed(ys, s) == [k \in 1..Len(ys) |-> ys[s[k]]]

\* A collect that pushes the results as the tasks complete.
RECURSIVE ParCollectAsCompleted(_, _, _, _)
ParCollectAsCompleted(ys, s, k, out) ==
    IF k > Len(ys) THEN out
    ELSE ParCollectAsCompleted(ys, s, k + 1, [out EXCEPT ![k] = ys[s[k]]])

\* par_iter().map(..).collect(): task s[k] completes k-th and its result is
\* written to its own index.
RECURSIVE ParCollect(_, _, _, _)
ParCollect(ys, s, k, out) ==
    IF k > Len(ys) THEN out
    ELSE ParCollect(ys, s, k + 1, [out EXCEPT ![s[k]] = ys[s[k]]])

\* The results ys of a parallel map, collected under schedule s.
par_map_collect(ys, s) == ParCollect(ys, s, 1, ys)

RECURSIVE G1Sum(_)
G1Sum(xs) == IF xs = <<>> THEN 0 ELSE G1Add(G1Sum(Tail(xs)), Head(xs))

\* structured_scalar_power(num, s): 1, s, s^2, ..., s^(num - 1)
structured_scalar_power(num, s) == [i \in 1..num |-> FrPow(s, i - 1)]

\* compress(vec, split, scaler) on a vector of points:
\* vec[i] <- vec[i] + scaler * vec[split + i], then truncated to split.
compress(vec, split, scaler) ==
    [i \in 1..split |-> (vec[i] + scaler * vec[split + i]) % P]

\* A commitment key: two sequences of points of equal length.
Key(a, b) == [a |-> a, b |-> b]

KeySplit(key, at) ==
    <<Key(SubSeq(key.a, 1, at), SubSeq(key.b, 1, at)),
      Key(SubSeq(key.a, at + 1, Len(key.a)), SubSeq(key.b, at + 1, Len(key.b)))>>

\* left.compress(right, scale): left[i] + scale * right[i] in both rows;
\* None when the lengths differ.
KeyCompress(left, right, scale) ==
    IF Len(left.a) # Len(right.a) THEN None
    ELSE Some(Key([i \in 1..Len(left.a) |-> (left.a[i] + scale * right.a[i]) % P],
                  [i \in 1..Len(left.b) |-> (left.b[i] + scale * right.b[i]) % P]))

\* key.scale(s_vec): key[i] <- s_vec[i] * key[i] in both rows; None when
\* the lengths differ.
KeyScale(key, s_vec) ==
    IF Len(key.a) # Len(s_vec) THEN None
    ELSE Some(Key([i \in 1..Len(key.a) |-> (key.a[i] * s_vec[i]) % P],
                  [i \in 1..Len(key.b) |-> (key.b[i] * s_vec[i]) % P]))

KeyFirst(key) == <<key.a[1], key.b[1]>>

\* ip::pairing(a, b): prod e(a[i], b[i]), the factors combined in the
\* order of schedule s.
ip_pairing(a, b, s) ==
    FqkProduct(Completed([i \in 1..Len(a) |-> pairing(a[i], b[i])], s))

\* ip::multiexponentiation(c, r): sum r[i] * c[i], the terms combined in the
\* order of schedule s.
ip_multiexponentiation(c, r, s) ==
    G1Sum(Completed([i \in 1..Len(c) |-> G1Mul(c[i], r[i])], s))

\* commitment::pair(vkey, wkey, a, b):
\* (prod e(a[i], v.a[i]) e(w.a[i], b[i]), prod e(a[i], v.b[i]) e(w.b[i], b[i]))
commitment_pair(vkey, wkey, a, b, s) ==
    <<FqkMul(ip_pairing(a, vkey.a, s), ip_pairing(wkey.a, b, s)),
      FqkMul(ip_pairing(a, vkey.b, s), ip_pairing(wkey.b, b, s))>>

\* commitment::single_g1(vkey, c): (prod e(c[i], v.a[i]), prod e(c[i], v.b[i]))
commitment_single_g1(vkey, c, s) ==
    <<ip_pairing(c, vkey.a, s), ip_pairing(c, vkey.b, s)>>

(***************************************************************************)
(* The prover's SRS (srs.rs), as aggregate_proofs reads it                 *)
(***************************************************************************)
\* The powers x^lo, ..., x^(lo + len - 1) of a trapdoor, as a table of points
\* over the generator.
PowersTable(x, lo, len) == [i \in 1..len |-> FrPow(x, lo + i - 1)]

\* A ProverSRS specialized to n proofs over the trapdoors alpha, beta:
\* the V key holds the first n powers in G2, the W key holds n powers in G1
\* starting at wlo, the power tables of G2 hold hlen and those of G1 glen
\* powers.
ProverSRS(alpha, beta, n, wlo, hlen, glen) ==
    [vkey |-> Key(PowersTable(alpha, 0, n), PowersTable(beta, 0, n)),
     wkey |-> Key(PowersTable(alpha, wlo, n), PowersTable(beta, wlo, n)),
     h_alpha_powers_table |-> PowersTable(alpha, 0, hlen),
     h_beta_powers_table |-> PowersTable(beta, 0, hlen),
     g_alpha_powers_table |-> PowersTable(alpha, 0, glen),
     g_beta_powers_table |-> PowersTable(beta, 0, glen)]

\* The length of the longest power table.
TableLen(srs) ==
    IF Len(srs.g_alpha_powers_table) >= Len(srs.h_alpha_powers_table)
    THEN Len(srs.g_alpha_powers_table)
    ELSE Len(srs.h_alpha_powers_table)

\* ProverSRS::has_correct_len(n): both keys have n entries in both rows.
has_correct_len(srs, n) ==
    /\ Len(srs.vkey.a) = n /\ Len(srs.vkey.b) = n
    /\ Len(srs.wkey.a) = n /\ Len(srs.wkey.b) = n

(***************************************************************************)
(* KZG openings (prover.rs)                                                *)
(***************************************************************************)
\* DensePolynomial::from_coefficients_vec: trailing zero coefficients are
\* dropped.
RECURSIVE from_coefficients_vec(_)
from_coefficients_vec(coeffs) ==
    IF coeffs = <<>> THEN <<>>
    ELSE IF coeffs[Len(coeffs)] = 0
         THEN from_coefficients_vec(SubSeq(coeffs, 1, Len(coeffs) - 1))
         ELSE coeffs

\* poly - other on DensePolynomial
PolySub(poly, other) ==
    LET len == IF Len(poly) >= Len(other) THEN Len(poly) ELSE Len(other)
        At(q, i) == IF i <= Len(q) THEN q[i] ELSE 0
    IN  from_coefficients_vec([i \in 1..len |-> (At(poly, i) - At(other, i)) % P])

\* The quotient of poly by X - z, from the leading coefficient down
\* (q[k] = poly[k + 1] + z * q[k + 1]).
RECURSIVE DivLoop(_, _, _, _)
DivLoop(poly, z, k, q) ==
    IF k = 0 THEN q
    ELSE DivLoop(poly, z, k - 1,
                 [q EXCEPT ![k] = (poly[k + 1] + (IF k = Len(q) THEN 0 ELSE z * q[k + 1])) % P])

\* poly / (X - z) on DensePolynomial: the quotient; zero when poly is a
\* constant.
PolyDivLinear(poly, z) ==
    IF Len(poly) < 2 THEN <<>>
    ELSE from_coefficients_vec(
             DivLoop(poly, z, Len(poly) - 1, [i \in 1..(Len(poly) - 1) |-> 0]))

\* Vec::resize(len, zero)
resize(v, len) == [i \in 1..len |-> IF i <= Len(v) THEN v[i] ELSE 0]

\* VariableBaseMSM::multi_scalar_mul(bases, scalars)
multi_scalar_mul(bases, scalars) ==
    LET len == IF Len(bases) <= Len(scalars) THEN Len(bases) ELSE Len(scalars)
    IN  G1Sum([i \in 1..len |-> G1Mul(bases[i], scalars[i])])

\* create_kzg_opening: [err: "none", "InvalidSRS" or "panic" (a failed
\* assert_eq), opening: the two points].
create_kzg_opening(srs_powers_alpha_table, srs_powers_beta_table, poly, eval_poly, kzg_challenge, s) ==
    IF Len(poly) # Len(srs_powers_alpha_table)
    THEN [err |-> "InvalidSRS", opening |-> <<0, 0>>]
    ELSE LET quotient_polynomial ==
                 PolyDivLinear(PolySub(poly, from_coefficients_vec(<<eval_poly>>)),
                               kzg_challenge)
             quotient_polynomial_coeffs ==
                 resize(quotient_polynomial, Len(srs_powers_alpha_table))
             quotient_repr ==
                 par_map_collect(quotient_polynomial_coeffs,
                                 Restrict(s, Len(quotient_polynomial_coeffs)))
         IN  IF Len(quotient_polynomial_coeffs) # Len(srs_powers_beta_table)
             THEN [err |-> "panic", opening |-> <<0, 0>>]
             ELSE [err |-> "none",
                   opening |-> <<multi_scalar_mul(srs_powers_alpha_table, quotient_repr),
                                 multi_scalar_mul(srs_powers_beta_table, quotient_repr)>>]

\* prove_commitment_v
prove_commitment_v(srs_powers_alpha_table, srs_powers_beta_table, transcript, kzg_challenge, s) ==
    LET vkey_poly ==
            from_coefficients_vec(polynomial_coefficients_from_transcript(transcript, 1))
        vkey_poly_z ==
            polynomial_evaluation_product_form_from_transcript(transcript, kzg_challenge, 1)[1]
    IN  create_kzg_opening(srs_powers_alpha_table, srs_powers_beta_table,
                           vkey_poly, vkey_poly_z, kzg_challenge, s)

\* prove_commitment_w, lines 387-391: the coefficients of f, shifted by as
\* many zero coefficients as f has coefficients.
fwcoeffs(transcript, r_shift) ==
    LET fcoeffs == polynomial_coefficients_from_transcript(transcript, r_shift)
    IN  [i \in 1..Len(fcoeffs) |-> 0] \o fcoeffs

\* prove_commitment_w, lines 393-401: f(z) times z^n.
fwz(n, transcript, r_shift, kzg_challenge) ==
    FrMul(polynomial_evaluation_product_form_from_transcript(transcript, kzg_challenge, r_shift)[1],
          FrPow(kzg_challenge, n))

\* prove_commitment_w
prove_commitment_w(srs_powers_alpha_table, srs_powers_beta_table, transcript, r_shift, kzg_challenge, s) ==
    create_kzg_opening(srs_powers_alpha_table, srs_powers_beta_table,
                       from_coefficients_vec(fwcoeffs(transcript, r_shift)),
                       fwz(Len(srs_powers_alpha_table), transcript, r_shift, kzg_challenge),
                       kzg_challenge, s)

(***************************************************************************)
(* aggregate_proofs (prover.rs), step by step.  A run is a record: its     *)
(* position pc, the transcript, the log of the transcript operations made  *)
(* by the run, the locals of the functions and the result.  Each step      *)
(* takes the run, the inputs and the schedule s of the parallel work of    *)
(* the step, and returns the run after the step.                           *)
(***************************************************************************)
Result(kind, msg) == [kind |-> kind, msg |-> msg]

NoKey == Key(<<>>, <<>>)
GTPairOne == <<FqkOne, FqkOne>>

\* Elements as they are appended.
GTPairElem(p) == PairElem(FqkElem(p[1]), FqkElem(p[2]))

\* A run that has not started: the caller's transcript, nothing computed.
NewRun(tr) ==
    [pc |-> "start", transcript |-> tr, log |-> <<>>, result |-> Result("none", ""),
     a |-> <<>>, b |-> <<>>, c |-> <<>>,
     com_ab |-> GTPairOne, com_c |-> GTPairOne,
     r |-> 0, r_vec |-> <<>>, r_inv |-> <<>>, b_r |-> <<>>,
     ip_ab |-> FqkOne, agg_c |-> 0, wkey_r_inv |-> NoKey,
     m_a |-> <<>>, m_b |-> <<>>, m_c |-> <<>>, m_r |-> <<>>,
     vkey |-> NoKey, wkey |-> NoKey,
     comms_ab |-> <<>>, comms_c |-> <<>>, z_ab |-> <<>>, z_c |-> <<>>,
     challenges |-> <<>>, challenges_inv |-> <<>>,
     c_inv |-> 0, c_chal |-> 0, i |-> 0,
     final_a |-> 0, final_b |-> 0, final_c |-> 0,
     final_vkey |-> <<0, 0>>, final_wkey |-> <<0, 0>>,
     z |-> 0, vkey_opening |-> <<0, 0>>, wkey_opening |-> <<0, 0>>]

\* The run ends with an error value.
Fail(run, kind, msg) == [run EXCEPT !.pc = "err", !.result = Result(kind, msg)]

\* The run ends in a panic.
Panic(run, msg) == [run EXCEPT !.pc = "panic", !.result = Result("panic", msg)]

\* transcript.append(element), logged.
TAppend(run, element) ==
    [run EXCEPT !.transcript = append(@, element),
                !.log = Append(@, [op |-> "append", el |-> element])]

RECURSIVE TAppendAll(_, _)
TAppendAll(run, elements) ==
    IF elements = <<>> THEN run
    ELSE TAppendAll(TAppend(run, Head(elements)), Tail(elements))

\* transcript.challenge_scalar(), logged: [run, t: the Option drawn].
TChallenge(run) ==
    LET d == challenge_scalar(run.transcript)
    IN  [run |-> [run EXCEPT !.transcript = d.tr,
                             !.log = Append(@, [op |-> "challenge",
                                                el |-> IF d.t = None THEN FrElem(P)
                                                       ELSE FrElem(d.t[1])])],
         t |-> d.t]

\* The up-front checks of aggregate_proofs, the SRS check first.
validate_srs_first(len, srs) ==
    IF ~has_correct_len(srs, len)
    THEN Result("InvalidSRS", "SRS len != proofs len")
    ELSE IF len < 2
    THEN Result("InvalidProof", "invalid proof size < 2")
    ELSE IF ~is_power_of_two(len)
    THEN Result("InvalidProof", "invalid proof size: not power of two")
    ELSE Result("none", "")

\* The up-front checks of aggregate_proofs on proofs.len() and the SRS.
validate(len, srs) ==
    IF len < 2
    THEN Result("InvalidProof", "invalid proof size < 2")
    ELSE IF ~is_power_of_two(len)
    THEN Result("InvalidProof", "invalid proof size: not power of two")
    ELSE IF ~has_correct_len(srs, len)
    THEN Result("InvalidSRS", "SRS len != proofs len")
    ELSE Result("none", "")

\* The up-front checks made after a draw from the transcript.
StepValidate_after_draw(run, srs, proofs) ==
    LET v == validate(Len(proofs), srs)
        drawn == TChallenge(run).run
    IN  IF v.kind # "none" THEN Fail(drawn, v.kind, v.msg)
        ELSE [drawn EXCEPT !.pc = "commit"]

\* Lines 38-49: return the first error, or go on to the commitments.
StepValidate(run, srs, proofs) ==
    LET v == validate(Len(proofs), srs)
    IN  IF v.kind # "none" THEN Fail(run, v.kind, v.msg)
        ELSE [run EXCEPT !.pc = "commit"]

\* Lines 52-67: extract A, B, C and commit to them.
StepCommit(run, srs, proofs, s) ==
    LET a == [k \in 1..Len(proofs) |-> proofs[k].a]
        b == [k \in 1..Len(proofs) |-> proofs[k].b]
        c == [k \in 1..Len(proofs) |-> proofs[k].c]
    IN  [run EXCEPT !.pc = "challenge",
                    !.a = a, !.b = b, !.c = c,
                    !.com_ab = commitment_pair(srs.vkey, srs.wkey, a, b, s),
                    !.com_c = commitment_single_g1(srs.vkey, c, s)]

\* The draw of r with com_c appended before com_ab.
StepChallenge_com_c_first(run) ==
    LET d == TChallenge(TAppendAll(run, <<GTPairElem(run.com_c), GTPairElem(run.com_ab)>>))
    IN  IF d.t = None THEN Panic(d.run, "from_random_bytes")
        ELSE [d.run EXCEPT !.pc = "rescale", !.r = d.t[1]]

\* Lines 70-72: append the commitments and draw r.
StepChallenge(run) ==
    LET d == TChallenge(TAppendAll(run, <<GTPairElem(run.com_ab), GTPairElem(run.com_c)>>))
    IN  IF d.t = None THEN Panic(d.run, "from_random_bytes")
        ELSE [d.run EXCEPT !.pc = "rescale", !.r = d.t[1]]

\* The rescaling with the W key scaled by the powers of r in place of their
\* inverses.
StepRescale_w_by_r(run, srs, s) ==
    LET n == Len(run.a)
        r_vec == structured_scalar_power(n, run.r)
        inverses == [k \in 1..n |-> FrInverse(r_vec[k])]
    IN  IF \E k \in 1..n : inverses[k] = None
        THEN Panic([run EXCEPT !.r_vec = r_vec], "inverse of r")
        ELSE LET r_inv == par_map_collect([k \in 1..n |-> inverses[k][1]], s)
                 b_r == par_map_collect([k \in 1..n |-> G2Mul(run.b[k], r_vec[k])], s)
                 wkey_r_inv == KeyScale(srs.wkey, r_vec)
                 next == [run EXCEPT !.r_vec = r_vec, !.r_inv = r_inv, !.b_r = b_r,
                                     !.ip_ab = ip_pairing(run.a, b_r, s),
                                     !.agg_c = ip_multiexponentiation(run.c, r_vec, s)]
             IN  IF wkey_r_inv = None
                 THEN Fail(next, "InvalidKeyLength", "")
                 ELSE [next EXCEPT !.pc = "gipa", !.wkey_r_inv = wkey_r_inv[1]]

\* Lines 75-99: the powers of r and their inverses, B^r, ip_ab, agg_c and
\* the scaled W key.
StepRescale(run, srs, s) ==
    LET n == Len(run.a)
        r_vec == structured_scalar_power(n, run.r)
        inverses == [k \in 1..n |-> FrInverse(r_vec[k])]
    IN  IF \E k \in 1..n : inverses[k] = None
        THEN Panic([run EXCEPT !.r_vec = r_vec], "inverse of r")
        ELSE LET r_inv == par_map_collect([k \in 1..n |-> inverses[k][1]], s)
                 b_r == par_map_collect([k \in 1..n |-> G2Mul(run.b[k], r_vec[k])], s)
                 wkey_r_inv == KeyScale(srs.wkey, r_inv)
                 next == [run EXCEPT !.r_vec = r_vec, !.r_inv = r_inv, !.b_r = b_r,
                                     !.ip_ab = ip_pairing(run.a, b_r, s),
                                     !.agg_c = ip_multiexponentiation(run.c, r_vec, s)]
             IN  IF wkey_r_inv = None
                 THEN Fail(next, "InvalidKeyLength", "")
                 ELSE [next EXCEPT !.pc = "gipa", !.wkey_r_inv = wkey_r_inv[1]]

Left(v, split) == SubSeq(v, 1, split)
Right(v, split) == SubSeq(v, split + 1, Len(v))

\* Vec::reverse
Reverse(v) == [k \in 1..Len(v) |-> v[Len(v) + 1 - k]]

\* The prelude of gipa_tipp_mipp with agg_c appended before ip_ab.
StepGipaPrelude_agg_c_first(run, srs) ==
    LET d == TChallenge(TAppendAll(run, <<G1Elem(run.agg_c), FqkElem(run.ip_ab)>>))
        next == [d.run EXCEPT !.m_a = run.a, !.m_b = run.b_r,
                              !.m_c = run.c, !.m_r = run.r_vec,
                              !.vkey = srs.vkey, !.wkey = run.wkey_r_inv]
    IN  IF d.t = None THEN Panic(next, "from_random_bytes")
        ELSE IF FrInverse(d.t[1]) = None
        THEN Panic([next EXCEPT !.c_inv = d.t[1]], "inverse of c_inv")
        ELSE [next EXCEPT !.pc = "round", !.c_inv = d.t[1],
                          !.c_chal = FrInverse(d.t[1])[1], !.i = 0]

\* Lines 144 and 204-223 (prove_tipp_mipp calls gipa_tipp_mipp): the working
\* copies, then ip_ab and agg_c are appended and the first c_inv is drawn.
StepGipaPrelude(run, srs) ==
    LET d == TChallenge(TAppendAll(run, <<FqkElem(run.ip_ab), G1Elem(run.agg_c)>>))
        next == [d.run EXCEPT !.m_a = run.a, !.m_b = run.b_r,
                              !.m_c = run.c, !.m_r = run.r_vec,
                              !.vkey = srs.vkey, !.wkey = run.wkey_r_inv]
    IN  IF d.t = None THEN Panic(next, "from_random_bytes")
        ELSE IF FrInverse(d.t[1]) = None
        THEN Panic([next EXCEPT !.c_inv = d.t[1]], "inverse of c_inv")
        ELSE [next EXCEPT !.pc = "round", !.c_inv = d.t[1],
                          !.c_chal = FrInverse(d.t[1])[1], !.i = 0]

\* Lines 292-309 with every vector folded with the same factor c.
GipaFoldVectors_all_with_c(run, split, c, c_inv, s) ==
    LET r_left == Left(run.m_r, split)
        r_right == Right(run.m_r, split)
        folded_r == par_map_collect(
                        [k \in 1..split |-> FrAdd(r_left[k], FrMul(r_right[k], c))], s)
    IN  [run EXCEPT !.m_a = compress(run.m_a, split, c),
                    !.m_b = compress(run.m_b, split, c),
                    !.m_c = compress(run.m_c, split, c),
                    !.m_r = resize(folded_r, split)]

\* Lines 292-309: A and C are compressed with c, B with c_inv, and r is
\* folded in place with c_inv and shrunk.
GipaFoldVectors(run, split, c, c_inv, s) ==
    LET r_left == Left(run.m_r, split)
        r_right == Right(run.m_r, split)
        folded_r == par_map_collect(
                        [k \in 1..split |-> FrAdd(r_left[k], FrMul(r_right[k], c_inv))], s)
    IN  [run EXCEPT !.m_a = compress(run.m_a, split, c),
                    !.m_b = compress(run.m_b, split, c_inv),
                    !.m_c = compress(run.m_c, split, c),
                    !.m_r = resize(folded_r, split)]

\* Lines 312-314 with the factors of the two keys exchanged.
GipaFoldKeys_v_with_c(run, split, c, c_inv) ==
    LET vk == KeySplit(run.vkey, split)
        wk == KeySplit(run.wkey, split)
        vkey == KeyCompress(vk[1], vk[2], c)
        wkey == KeyCompress(wk[1], wk[2], c_inv)
    IN  IF vkey = None \/ wkey = None THEN None
        ELSE Some(<<vkey[1], wkey[1]>>)

\* Lines 312-314: the V key is compressed with c_inv, the W key with c;
\* None when a compress fails.
GipaFoldKeys(run, split, c, c_inv) ==
    LET vk == KeySplit(run.vkey, split)
        wk == KeySplit(run.wkey, split)
        vkey == KeyCompress(vk[1], vk[2], c_inv)
        wkey == KeyCompress(wk[1], wk[2], c)
    IN  IF vkey = None \/ wkey = None THEN None
        ELSE Some(<<vkey[1], wkey[1]>>)

\* Lines 316-323 without the push of c_inv.
GipaRecord_without_c_inv(run, c, c_inv, tab, tuc, zab, zc) ==
    [run EXCEPT !.comms_ab = Append(@, tab),
                !.comms_c = Append(@, tuc),
                !.z_ab = Append(@, zab),
                !.z_c = Append(@, zc),
                !.challenges = Append(@, c),
                !.c_chal = c, !.c_inv = c_inv,
                !.i = run.i + 1]

\* Lines 316-323: the cross terms and the challenge pair of the round are
\* pushed, and the round counter goes up.
GipaRecord(run, c, c_inv, tab, tuc, zab, zc) ==
    [run EXCEPT !.comms_ab = Append(@, tab),
                !.comms_c = Append(@, tuc),
                !.z_ab = Append(@, zab),
                !.z_c = Append(@, zc),
                !.challenges = Append(@, c),
                !.challenges_inv = Append(@, c_inv),
                !.c_chal = c, !.c_inv = c_inv,
                !.i = run.i + 1]

\* The folds at the end of a round (lines 292-323), with the challenge pair
\* of the round.
GipaFold(run, split, c, c_inv, s, tab, tuc, zab, zc) ==
    LET next == GipaFoldVectors(run, split, c, c_inv, s)
        keys == GipaFoldKeys(run, split, c, c_inv)
    IN  IF keys = None THEN Fail(next, "InvalidKeyLength", "")
        ELSE GipaRecord([next EXCEPT !.vkey = keys[1][1], !.wkey = keys[1][2]],
                        c, c_inv, tab, tuc, zab, zc)

\* One pass of the loop `while m_a.len() > 1` (lines 225-324).
StepGipaRound(run, s) ==
    LET split == Len(run.m_a) \div 2
        sh == Restrict(s, split)
        vk == KeySplit(run.vkey, split)
        wk == KeySplit(run.wkey, split)
        a_left == Left(run.m_a, split)
        a_right == Right(run.m_a, split)
        b_left == Left(run.m_b, split)
        b_right == Right(run.m_b, split)
        c_left == Left(run.m_c, split)
        c_right == Right(run.m_c, split)
        r_left == Left(run.m_r, split)
        r_right == Right(run.m_r, split)
        tab_l == commitment_pair(vk[1], wk[2], a_right, b_left, sh)
        tab_r == commitment_pair(vk[2], wk[1], a_left, b_right, sh)
        zab_l == ip_pairing(a_right, b_left, sh)
        zab_r == ip_pairing(a_left, b_right, sh)
        zc_l == ip_multiexponentiation(c_right, r_left, sh)
        zc_r == ip_multiexponentiation(c_left, r_right, sh)
        tuc_l == commitment_single_g1(vk[1], c_right, sh)
        tuc_r == commitment_single_g1(vk[2], c_left, sh)
        tab == <<tab_l, tab_r>>
        tuc == <<tuc_l, tuc_r>>
        zab == <<zab_l, zab_r>>
        zc == <<zc_l, zc_r>>
    IN  IF run.i = 0
        THEN GipaFold(run, split, run.c_chal, run.c_inv, sh, tab, tuc, zab, zc)
        ELSE LET d == TChallenge(TAppendAll(run,
                          <<FrElem(run.c_inv), FqkElem(zab_l), FqkElem(zab_r),
                            G1Elem(zc_l), G1Elem(zc_r),
                            GTPairElem(tab_l), GTPairElem(tab_r),
                            GTPairElem(tuc_l), GTPairElem(tuc_r)>>))
             IN  IF d.t = None THEN Panic(d.run, "from_random_bytes")
                 ELSE IF FrInverse(d.t[1]) = None
                 THEN Panic([d.run EXCEPT !.c_inv = d.t[1]], "inverse of c_inv")
                 ELSE GipaFold(d.run, split, FrInverse(d.t[1])[1], d.t[1], sh,
                               tab, tuc, zab, zc)

\* Lines 326-350: the four assertions and the final values.
StepGipaFinal(run) ==
    IF ~ ( /\ Len(run.m_a) = 1 /\ Len(run.m_b) = 1
           /\ Len(run.m_c) = 1 /\ Len(run.m_r) = 1
           /\ Len(run.vkey.a) = 1 /\ Len(run.vkey.b) = 1
           /\ Len(run.wkey.a) = 1 /\ Len(run.wkey.b) = 1 )
    THEN Panic(run, "assert")
    ELSE [run EXCEPT !.pc = "kzg",
                     !.final_a = run.m_a[1], !.final_b = run.m_b[1],
                     !.final_c = run.m_c[1],
                     !.final_vkey = KeyFirst(run.vkey),
                     !.final_wkey = KeyFirst(run.wkey)]

\* The draw of z with the inverse challenge of the last round appended in
\* place of the challenge.
StepKzgChallenge_appends_c_inv(run) ==
    LET challenges == Reverse(run.challenges)
        challenges_inv == Reverse(run.challenges_inv)
        rev == [run EXCEPT !.challenges = challenges,
                           !.challenges_inv = challenges_inv]
    IN  IF FrInverse(run.r_vec[2]) = None THEN Panic(rev, "inverse of r_shift")
        ELSE LET d == TChallenge(TAppendAll(rev,
                          <<FrElem(challenges_inv[1]),
                            G2Elem(run.final_vkey[1]), G2Elem(run.final_vkey[2]),
                            G1Elem(run.final_wkey[1]), G1Elem(run.final_wkey[2])>>))
             IN  IF d.t = None THEN Panic(d.run, "from_random_bytes")
                 ELSE [d.run EXCEPT !.pc = "open", !.z = d.t[1]]

\* Lines 153-163: both challenge lists are reversed, r_shift is inverted,
\* and the KZG challenge z is drawn.
StepKzgChallenge(run) ==
    LET challenges == Reverse(run.challenges)
        challenges_inv == Reverse(run.challenges_inv)
        rev == [run EXCEPT !.challenges = challenges,
                           !.challenges_inv = challenges_inv]
    IN  IF FrInverse(run.r_vec[2]) = None THEN Panic(rev, "inverse of r_shift")
        ELSE LET d == TChallenge(TAppendAll(rev,
                          <<FrElem(challenges[1]),
                            G2Elem(run.final_vkey[1]), G2Elem(run.final_vkey[2]),
                            G1Elem(run.final_wkey[1]), G1Elem(run.final_wkey[2])>>))
             IN  IF d.t = None THEN Panic(d.run, "from_random_bytes")
                 ELSE [d.run EXCEPT !.pc = "open", !.z = d.t[1]]

\* Lines 165-185: the two openings; an error of the V opening is returned
\* before one of the W opening.
StepKzgOpen(run, srs, s) ==
    LET r_inverse == FrInverse(run.r_vec[2])[1]
        vkey_opening == prove_commitment_v(srs.h_alpha_powers_table,
                                           srs.h_beta_powers_table,
                                           run.challenges_inv, run.z, s)
        wkey_opening == prove_commitment_w(srs.g_alpha_powers_table,
                                           srs.g_beta_powers_table,
                                           run.challenges, r_inverse, run.z, s)
    IN  IF vkey_opening.err = "panic" \/ wkey_opening.err = "panic"
        THEN Panic(run, "assert_eq")
        ELSE IF vkey_opening.err # "none"
        THEN Fail(run, vkey_opening.err, "SRS len != coefficients len (v)")
        ELSE IF wkey_opening.err # "none"
        THEN Fail(run, wkey_opening.err, "SRS len != coefficients len (w)")
        ELSE [run EXCEPT !.pc = "check",
                         !.vkey_opening = vkey_opening.opening,
                         !.wkey_opening = wkey_opening.opening]

\* Lines 113-124: the debug assertion (a debug build only), then Ok.
StepFinish(run, srs, profile, s) ==
    IF /\ profile = "debug"
       /\ run.com_ab # commitment_pair(srs.vkey, run.wkey_r_inv, run.a, run.b_r, s)
    THEN Panic(run, "debug_assert")
    ELSE [run EXCEPT !.pc = "done", !.result = Result("Ok", "")]

\* What aggregate_proofs returns: the AggregateProof on Ok.
AggregateProof(x) ==
    [com_ab |-> x.com_ab, com_c |-> x.com_c, ip_ab |-> x.ip_ab, agg_c |-> x.agg_c,
     tmipp |-> [gipa |-> [nproofs |-> Len(x.a),
                          comms_ab |-> x.comms_ab, comms_c |-> x.comms_c,
                          z_ab |-> x.z_ab, z_c |-> x.z_c,
                          final_a |-> x.final_a, final_b |-> x.final_b,
                          final_c |-> x.final_c,
                          final_vkey |-> x.final_vkey, final_wkey |-> x.final_wkey],
                vkey_opening |-> x.vkey_opening,
                wkey_opening |-> x.wkey_opening]]

(***************************************************************************)
(* verify_aggregate_proof (verifier.rs), as the specification describes it *)
(***************************************************************************)
\* The verifier's half of an SRS: n, g, h and the first powers of the
\* trapdoors in both groups.
VerifierSRS(srs) ==
    [n |-> Len(srs.vkey.a), g |-> 1, h |-> 1,
     g_alpha |-> srs.g_alpha_powers_table[2], g_beta |-> srs.g_beta_powers_table[2],
     h_alpha |-> srs.h_alpha_powers_table[2], h_beta |-> srs.h_beta_powers_table[2]]

\* The k-th coefficient the rng of the batch returns (never zero).
rand_fr(seed, k) == ((seed + k) % (P - 1)) + 1

\* A verification in progress: the transcript, the challenges collected,
\* the batch, the number of coefficients drawn, and whether a draw or an
\* inversion failed.
NewVerification(tr, seed) ==
    [transcript |-> tr, log |-> <<>>, challenges |-> <<>>, challenges_inv |-> <<>>,
     checks |-> new, seed |-> seed, drawn |-> 0, failed |-> FALSE]

\* One equation prod e(A_i, B_i) = out enters the batch, randomized.
VerifierCheck(v, it, out) ==
    [v EXCEPT !.checks = merge(@, rand(rand_fr(v.seed, v.drawn), it, out), "release").self,
              !.drawn = @ + 1]

\* An equality that is not a pairing equation: the batch is invalidated
\* when it fails.
VerifierEquality(v, holds) ==
    IF holds THEN v
    ELSE [v EXCEPT !.checks = merge(@, new_invalid, "release").self]

\* After a draw d: the verification fails when the draw or a needed
\* inversion failed; the challenge and its inverse are collected when
\* collect is set.
VerifierCollect(d, collect) ==
    IF d.t = None \/ (collect /\ FrInverse(IF d.t = None THEN 0 ELSE d.t[1]) = None)
    THEN [d.run EXCEPT !.failed = TRUE]
    ELSE IF collect
    THEN [d.run EXCEPT !.challenges = Append(@, FrInverse(d.t[1])[1]),
                       !.challenges_inv = Append(@, d.t[1])]
    ELSE d.run

\* The elements are appended and a challenge is drawn.
VerifierChallenge(v, elements, collect) ==
    VerifierCollect(TChallenge(TAppendAll(v, elements)), collect)

\* The challenge drawn last.
LastChallenge(v) == v.log[Len(v.log)].el.v

\* Step 2: the rounds of GIPA are replayed from round k on; the prelude
\* has drawn the challenge of round 1.
RECURSIVE VerifierReplay(_, _, _)
VerifierReplay(v, gipa, k) ==
    IF k > Len(gipa.z_ab) \/ v.failed THEN v
    ELSE VerifierReplay(
             VerifierChallenge(v,
                 <<FrElem(v.challenges_inv[k - 1]),
                   FqkElem(gipa.z_ab[k][1]), FqkElem(gipa.z_ab[k][2]),
                   G1Elem(gipa.z_c[k][1]), G1Elem(gipa.z_c[k][2]),
                   GTPairElem(gipa.comms_ab[k][1]), GTPairElem(gipa.comms_ab[k][2]),
                   GTPairElem(gipa.comms_c[k][1]), GTPairElem(gipa.comms_c[k][2])>>,
                 TRUE),
             gipa, k + 1)

\* Step 6: a GT value folded with the recorded cross terms:
\* start * prod left_k^c_k * right_k^c_inv_k.
RECURSIVE FoldGT(_, _, _, _, _)
FoldGT(start, cross, c, c_inv, k) ==
    IF k > Len(cross) THEN start
    ELSE FoldGT(FqkMul(start, FqkMul(FqkPow(cross[k][1], c[k]),
                                     FqkPow(cross[k][2], c_inv[k]))),
                cross, c, c_inv, k + 1)

\* The same for a point of G1: start + sum c_k * left_k + c_inv_k * right_k.
RECURSIVE FoldG1(_, _, _, _, _)
FoldG1(start, cross, c, c_inv, k) ==
    IF k > Len(cross) THEN start
    ELSE FoldG1(G1Add(start, G1Add(G1Mul(cross[k][1], c[k]), G1Mul(cross[k][2], c_inv[k]))),
                cross, c, c_inv, k + 1)

\* Coordinate j of the pairs of GT values recorded per round.
Coordinate(cross, j) == [k \in 1..Len(cross) |-> <<cross[k][1][j], cross[k][2][j]>>]

\* Step 5: the KZG openings of the final keys at z.
VerifierKzgChecks(v, vsrs, proof, z, f_v, f_w) ==
    LET gipa == proof.tmipp.gipa
        \* e(g, final_vkey - h^f_v(z)) = e(g^alpha - g^z, opening), for alpha and beta
        k1 == VerifierCheck(v,
                  <<<<vsrs.g, (gipa.final_vkey[1] - f_v * vsrs.h) % P>>,
                    <<(z * vsrs.g - vsrs.g_alpha) % P, proof.tmipp.vkey_opening[1]>>>>, FqkOne)
        k2 == VerifierCheck(k1,
                  <<<<vsrs.g, (gipa.final_vkey[2] - f_v * vsrs.h) % P>>,
                    <<(z * vsrs.g - vsrs.g_beta) % P, proof.tmipp.vkey_opening[2]>>>>, FqkOne)
        \* e(final_wkey - g^f_w(z), h) = e(opening, h^alpha - h^z), for alpha and beta
        k3 == VerifierCheck(k2,
                  <<<<(gipa.final_wkey[1] - f_w * vsrs.g) % P, vsrs.h>>,
                    <<proof.tmipp.wkey_opening[1], (z * vsrs.h - vsrs.h_alpha) % P>>>>, FqkOne)
    IN  VerifierCheck(k3,
            <<<<(gipa.final_wkey[2] - f_w * vsrs.g) % P, vsrs.h>>,
              <<proof.tmipp.wkey_opening[2], (z * vsrs.h - vsrs.h_beta) % P>>>>, FqkOne)

\* Step 6: the final values against the commitments and inner products
\* folded with the recorded cross terms.
VerifierFoldChecks(v, proof, final_r) ==
    LET gipa == proof.tmipp.gipa
        c == v.challenges
        c_inv == v.challenges_inv
        \* e(final_a, final_b) = ip_ab_folded
        k5 == VerifierCheck(v, <<<<gipa.final_a, gipa.final_b>>>>,
                            FoldGT(proof.ip_ab, gipa.z_ab, c, c_inv, 1))
        \* final_c scaled by the folded r = agg_c_folded
        k6 == VerifierEquality(k5, G1Mul(gipa.final_c, final_r)
                                     = FoldG1(proof.agg_c, gipa.z_c, c, c_inv, 1))
        \* pair(final_vkey, final_wkey; final_a, final_b) = com_ab_folded
        k7 == VerifierCheck(k6,
                  <<<<gipa.final_a, gipa.final_vkey[1]>>,
                    <<gipa.final_wkey[1], gipa.final_b>>>>,
                  FoldGT(proof.com_ab[1], Coordinate(gipa.comms_ab, 1), c, c_inv, 1))
        k8 == VerifierCheck(k7,
                  <<<<gipa.final_a, gipa.final_vkey[2]>>,
                    <<gipa.final_wkey[2], gipa.final_b>>>>,
                  FoldGT(proof.com_ab[2], Coordinate(gipa.comms_ab, 2), c, c_inv, 1))
        \* single_g1(final_vkey; final_c) = com_c_folded
        k9 == VerifierCheck(k8, <<<<gipa.final_c, gipa.final_vkey[1]>>>>,
                            FoldGT(proof.com_c[1], Coordinate(gipa.comms_c, 1), c, c_inv, 1))
    IN  VerifierCheck(k9, <<<<gipa.final_c, gipa.final_vkey[2]>>>>,
                      FoldGT(proof.com_c[2], Coordinate(gipa.comms_c, 2), c, c_inv, 1))

\* Step 4: the expected final values f_v(z), f_w(z) and the folded r, then
\* the checks of steps 5 and 6.
VerifierEvaluate(v, vsrs, proof, r, z) ==
    LET rev == Reverse(v.challenges)
        rev_inv == Reverse(v.challenges_inv)
        f_v == polynomial_evaluation_product_form_from_transcript(rev_inv, z, 1)[1]
        f_w == FrMul(FrPow(z, vsrs.n),
                     polynomial_evaluation_product_form_from_transcript(
                         rev, z, FrInverse(r)[1])[1])
        final_r == polynomial_evaluation_product_form_from_transcript(rev_inv, r, 1)[1]
    IN  VerifierFoldChecks(VerifierKzgChecks(v, vsrs, proof, z, f_v, f_w), proof, final_r)

\* After z was drawn.
VerifierAfterZ(v, vsrs, proof, r) ==
    IF v.failed THEN v ELSE VerifierEvaluate(v, vsrs, proof, r, LastChallenge(v))

\* Steps 3 to 6, after the challenges were replayed: z from the last
\* challenge and the final keys, then the checks.
VerifierFinalChecks(v, vsrs, proof, r) ==
    VerifierAfterZ(
        VerifierChallenge(v,
            <<FrElem(Reverse(v.challenges)[1]),
              G2Elem(proof.tmipp.gipa.final_vkey[1]), G2Elem(proof.tmipp.gipa.final_vkey[2]),
              G1Elem(proof.tmipp.gipa.final_wkey[1]), G1Elem(proof.tmipp.gipa.final_wkey[2])>>,
            FALSE),
        vsrs, proof, r)

\* After the rounds were replayed (v1: the verification after r was drawn,
\* v3: after the replay).
VerifierAfterReplay(v1, v3, vsrs, proof) ==
    IF v1.failed \/ v3.failed \/ FrInverse(LastChallenge(v1)) = None
    THEN [v3 EXCEPT !.failed = TRUE]
    ELSE VerifierFinalChecks(v3, vsrs, proof, LastChallenge(v1))

\* Step 2: the prelude, then the rounds.
VerifierAfterR(v1, vsrs, proof) ==
    VerifierAfterReplay(
        v1,
        VerifierReplay(
            VerifierChallenge(v1, <<FqkElem(proof.ip_ab), G1Elem(proof.agg_c)>>, TRUE),
            proof.tmipp.gipa, 2),
        vsrs, proof)

\* Step 7: the single final exponentiation of the batch.
VerifierVerdict(v) ==
    LET verdict_of_batch == IF v.failed THEN "panic" ELSE verify(v.checks)
    IN  [result |-> CASE verdict_of_batch = "true" -> "Ok"
                      [] verdict_of_batch = "false" -> "PairingCheckFailed"
                      [] OTHER -> "panic",
         v |-> v]

\* verify_aggregate_proof: [result: "Ok", "PairingCheckFailed" or "panic",
\* v: the verification at its end]. Step 1 draws r from com_ab and com_c.
verify_aggregate_proof(vsrs, proof, tr, seed) ==
    VerifierVerdict(
        VerifierAfterR(
            VerifierChallenge(NewVerification(tr, seed),
                <<GTPairElem(proof.com_ab), GTPairElem(proof.com_c)>>, FALSE),
            vsrs, proof))

(***************************************************************************)
(* SnarkJS interop (snarkjs_proof.rs).  A string is a sequence of          *)
(* characters; the outcome of a conversion is the value it returns or the  *)
(* panic that ends it.                                                     *)
(***************************************************************************)
\* The order of the base field Fq.
Q == 7

Value(v) == [kind |-> "value", v |-> v]
Abort(msg) == [kind |-> "panic", v |-> msg]

\* char::to_digit(10)
Digits == <<"0", "1", "2", "3", "4", "5", "6", "7", "8", "9">>
to_digit(ch) ==
    IF \E d \in 1..10 : Digits[d] = ch
    THEN Some((CHOOSE d \in 1..10 : Digits[d] = ch) - 1)
    ELSE None

\* The loop of Fq::from_str: a character that is no digit and a leading
\* zero are errors; the digits are accumulated in the field.
RECURSIVE FromStrLoop(_, _, _)
FromStrLoop(s, k, res) ==
    IF k > Len(s) THEN Some(res)
    ELSE LET d == to_digit(s[k])
         IN  IF d = None THEN None
             ELSE IF k = 1 /\ d[1] = 0 THEN None
             ELSE FromStrLoop(s, k + 1, (res * 10 + d[1]) % Q)

\* Fq::from_str: Err for the empty string, zero for "0".
Fq_from_str(s) ==
    IF s = <<>> THEN None
    ELSE IF s = <<"0">> THEN Some(0)
    ELSE FromStrLoop(s, 1, 0)

\* fq_from_str: Fq::from_str(&s).unwrap()
fq_from_str(s) ==
    IF Fq_from_str(s) = None THEN Abort("unwrap") ELSE Value(Fq_from_str(s)[1])

\* The strings strs[0], .., strs[n - 1] are indexed and parsed in order.
RECURSIVE ReadCoordinates(_, _, _)
ReadCoordinates(strs, n, out) ==
    IF Len(out) = n THEN Value(out)
    ELSE IF Len(strs) <= Len(out) THEN Abort("index out of bounds")
    ELSE IF fq_from_str(strs[Len(out) + 1]).kind = "panic"
    THEN fq_from_str(strs[Len(out) + 1])
    ELSE ReadCoordinates(strs, n, Append(out, fq_from_str(strs[Len(out) + 1]).v))

FqInverse(x) == CHOOSE y \in 1..(Q - 1) : (x * y) % Q = 1

\* G1Affine::from(G1Projective::new(x, y, z)): the point at infinity for
\* z = 0, else (x / z^2, y / z^3).
G1AffineFrom(x, y, z) ==
    IF z = 0 THEN <<"infinity">>
    ELSE <<(x * FqInverse(z * z)) % Q, (y * FqInverse(z * z * z)) % Q>>

\* Fq2 = Fq[u] / (u^2 + 1), an element c0 + c1 u written <<c0, c1>>.
Fq2Mul(a, b) == <<(a[1] * b[1] - a[2] * b[2]) % Q, (a[1] * b[2] + a[2] * b[1]) % Q>>
Fq2Inverse(a) ==
    <<(a[1] * FqInverse((a[1] * a[1] + a[2] * a[2]) % Q)) % Q,
      ((Q - a[2]) * FqInverse((a[1] * a[1] + a[2] * a[2]) % Q)) % Q>>

\* G2Affine::from(G2Projective::new(x, y, z))
G2AffineFrom(x, y, z) ==
    IF z = <<0, 0>> THEN <<"infinity">>
    ELSE <<Fq2Mul(x, Fq2Inverse(Fq2Mul(z, z))),
           Fq2Mul(y, Fq2Inverse(Fq2Mul(z, Fq2Mul(z, z))))>>

\* g1_from_str
g1_from_str(g1) ==
    IF ReadCoordinates(g1, 3, <<>>).kind = "panic" THEN ReadCoordinates(g1, 3, <<>>)
    ELSE Value(G1AffineFrom(ReadCoordinates(g1, 3, <<>>).v[1],
                            ReadCoordinates(g1, 3, <<>>).v[2],
                            ReadCoordinates(g1, 3, <<>>).v[3]))

\* The pairs g2[0], .., g2[2] are indexed in order, both strings of each
\* parsed.
RECURSIVE ReadPairs(_, _)
ReadPairs(g2, out) ==
    IF Len(out) = 3 THEN Value(out)
    ELSE IF Len(g2) <= Len(out) THEN Abort("index out of bounds")
    ELSE IF ReadCoordinates(g2[Len(out) + 1], 2, <<>>).kind = "panic"
    THEN ReadCoordinates(g2[Len(out) + 1], 2, <<>>)
    ELSE ReadPairs(g2, Append(out, ReadCoordinates(g2[Len(out) + 1], 2, <<>>).v))

\* g2_from_str
g2_from_str(g2) ==
    IF ReadPairs(g2, <<>>).kind = "panic" THEN ReadPairs(g2, <<>>)
    ELSE Value(G2AffineFrom(ReadPairs(g2, <<>>).v[1], ReadPairs(g2, <<>>).v[2],
                            ReadPairs(g2, <<>>).v[3]))

\* The conversions of the fields of a struct, evaluated in order: the
\* values, or the first panic.
RECURSIVE InOrderOrPanic(_, _)
InOrderOrPanic(outcomes, out) ==
    IF outcomes = <<>> THEN Value(out)
    ELSE IF Head(outcomes).kind = "panic" THEN Head(outcomes)
    ELSE InOrderOrPanic(Tail(outcomes), Append(out, Head(outcomes).v))

\* impl From<SnarkJSProof> for Proof
ProofFrom(src) ==
    InOrderOrPanic(<<g1_from_str(src.pi_a), g2_from_str(src.pi_b), g1_from_str(src.pi_c)>>,
                   <<>>)

\* impl From<SnarkJSVK> for VerifyingKey
VerifyingKeyFrom(src) ==
    InOrderOrPanic(<<g1_from_str(src.vk_alpha_1), g2_from_str(src.vk_beta_2),
                     g2_from_str(src.vk_gamma_2), g2_from_str(src.vk_delta_2)>>
                   \o [k \in 1..Len(src.ic) |-> g1_from_str(src.ic[k])],
                   <<>>)

(***************************************************************************)
(* State                                                                   *)
(***************************************************************************)
VARIABLES
    \* polynomial helpers: inputs and the two results
    px, pz, pr, pcoeffs, peval,
    \* two transcripts side by side: their states, the elements each was
    \* given (in order) and the challenges each returned
    trs, trApps, trDraws,
    \* PairingCheck: the accumulated check, its value before the last merge,
    \* the check merged last, the outcome of verify ("none" before it ran),
    \* the build profile, and a summary of the contributors so far
    \* (total: the sum of their counters)
    acc, pre, p2, verdict, build, contrib, total,
    \* aggregate_proofs: the prover SRS and the proofs handed in, the run
    \* under an arbitrary schedule of its parallel work, and a second run on
    \* the same inputs whose parallel tasks complete in index order
    srs, proofs, run, ref,
    \* verify_aggregate_proof on the proof the run returned: the verifier's
    \* own transcript and batch, and its result ("none" before it ran)
    ver,
    \* SnarkJS interop: the JSON document handed in and the outcome of its
    \* conversion
    json, converted,
    \* create_kzg_opening on its own: the arguments of the call and what it
    \* returned
    kzgCall, kzgResult

polyVars == <<px, pz, pr, pcoeffs, peval>>
trVars == <<trs, trApps, trDraws>>
pcVars == <<acc, pre, p2, verdict, build, contrib, total>>
aggVars == <<srs, proofs, run, ref, ver>>
sjVars == <<json, converted>>
kzgVars == <<kzgCall, kzgResult>>
vars == <<polyVars, trVars, pcVars, aggVars, sjVars, kzgVars>>

(***************************************************************************)
(* Specification of the polynomial helpers: the inputs are drawn in Init,  *)
(* the two functions are applied by the actions.                           *)
(***************************************************************************)
\* Longest challenge sequence handed to the polynomial helpers.
MaxChallenges == 3

RECURSIVE SeqsOfLen(_, _)
SeqsOfLen(S, n) ==
    IF n = 0 THEN {<<>>}
    ELSE {Append(s, x) : s \in SeqsOfLen(S, n - 1), x \in S}

SeqsUpTo(S, n) == UNION {SeqsOfLen(S, k) : k \in 0..n}

\* A result slot: None until the operation has run, then Some(result).
NotRun == None

PolyIdle ==
    /\ px = <<>> /\ pz = 0 /\ pr = 0
    /\ pcoeffs = NotRun /\ peval = NotRun

TrIdle ==
    /\ trs = <<>> /\ trApps = <<>> /\ trDraws = <<>>

PcIdle ==
    /\ acc = new /\ pre = new /\ p2 = new
    /\ verdict = "none" /\ build = "release"
    /\ contrib = <<>> /\ total = 0

\* No aggregation: no SRS was loaded, no proofs exist, aggregate_proofs and
\* verify_aggregate_proof were never called.
AggIdle ==
    /\ srs = NotRun /\ proofs = <<>>
    /\ run = NotRun /\ ref = NotRun /\ ver = NotRun

\* No conversion: no document was handed in.
SjIdle == json = NotRun /\ converted = NotRun

\* No call of create_kzg_opening on its own.
KzgIdle == kzgCall = NotRun /\ kzgResult = NotRun

PolyInit ==
    /\ TrIdle /\ PcIdle /\ AggIdle /\ SjIdle /\ KzgIdle
    /\ px \in SeqsUpTo(Fr, MaxChallenges)
    /\ pz \in Fr
    /\ pr \in Fr
    /\ pcoeffs = NotRun
    /\ peval = NotRun

PolyCoefficients ==
    /\ pcoeffs = NotRun
    /\ pcoeffs' = Some(polynomial_coefficients_from_transcript(px, pr))
    /\ UNCHANGED <<px, pz, pr, peval, trVars, pcVars, aggVars, sjVars, kzgVars>>

PolyEvaluate ==
    /\ peval = NotRun
    /\ peval' = Some(polynomial_evaluation_product_form_from_transcript(px, pz, pr))
    /\ UNCHANGED <<px, pz, pr, pcoeffs, trVars, pcVars, aggVars, sjVars, kzgVars>>

PolyNext == PolyCoefficients \/ PolyEvaluate

SpecPoly == PolyInit /\ [][PolyNext]_vars

(***************************************************************************)
(* Specification of PairingCheck: a check is built by one of the           *)
(* constructors, further checks are merged into it, and it is verified.    *)
(***************************************************************************)
\* Most pairs handed to rand, most factors handed to from_products, and
\* most merges into one check.
MaxPairs == 2
MaxLefts == 2
MaxMerges == 2

\* The points the pairs of an equation are drawn from.
PcPoints == {0, 1, 2}

\* The pairs (A, B) of an equation.
PcPairs == {p \in PcPoints \X PcPoints : p[1] <= p[2]}

\* The expected values of an equation: all of GT, zero, and a value
\* outside GT.
PcOuts == GT \cup {FqkZero, FqkTwo}

\* A contributor: the check a constructor returned, the constructor, and
\* whether the equation it stands for holds.
\* (gt: the expected value of the equation lies in GT.)
NewC == [chk |-> new, kind |-> "new", holds |-> TRUE, gt |-> TRUE]

InvalidC == [chk |-> new_invalid, kind |-> "new_invalid", holds |-> FALSE, gt |-> FALSE]

\* finalExponentiation(prod lefts) = right
ProductsC(lefts, right) ==
    [chk |-> from_products(lefts, right), kind |-> "from_products",
     holds |-> (final_exponentiation(FqkProduct(lefts)) = Some(right)),
     gt |-> (right \in GT)]

\* prod e(A_i, B_i) = out, the pairing e being the final exponentiation of
\* the Miller loop
RandC(coeff, it, out) ==
    [chk |-> rand(coeff, it, out), kind |-> "rand",
     holds |-> (final_exponentiation(MillerOut(it, 1)) = Some(out)),
     gt |-> (out \in GT)]

Contributors ==
    {NewC, InvalidC}
    \cup {ProductsC(lefts, right) : lefts \in SeqsUpTo(Fqk, MaxLefts), right \in PcOuts}
    \cup {RandC(coeff, it, out) : coeff \in 1..(P - 1),
                                  it \in SeqsUpTo(PcPairs, MaxPairs),
                                  out \in PcOuts}

\* The summary kept of a contributor: its constructor, whether its equation
\* holds and whether its expected value lies in GT.
Summary(c) == [kind |-> c.kind, holds |-> c.holds, gt |-> c.gt]

\* The counter stays far below its range here, so the two builds behave
\* alike; SpecCounter follows both.
PcInit ==
    /\ PolyIdle /\ TrIdle /\ AggIdle /\ SjIdle /\ KzgIdle
    /\ build = "release"
    /\ \E c \in Contributors :
        /\ acc = c.chk
        /\ contrib = <<Summary(c)>>
        /\ total = c.chk.non_randomized
    /\ pre = new /\ p2 = new
    /\ verdict = "none"

\* a.merge(&c.chk): a panic of the counter addition ends the program.
PcMergeStep(c) ==
    /\ verdict \notin {"panic", "overflow"}
    /\ LET m == merge(acc, c.chk, build)
       IN  /\ acc' = m.self
           /\ verdict' = IF m.panicked THEN "overflow" ELSE "none"
    /\ total' = total + c.chk.non_randomized
    /\ UNCHANGED <<build, polyVars, trVars, aggVars, sjVars, kzgVars>>

PcMerge ==
    /\ Len(contrib) <= MaxMerges
    /\ \E c \in Contributors :
        /\ PcMergeStep(c)
        /\ contrib' = Append(contrib, Summary(c))
    /\ UNCHANGED <<pre, p2>>

\* a.verify(): a panic of the unwrap ends the program.
PcVerify ==
    /\ verdict = "none"
    /\ verdict' = verify(acc)
    /\ UNCHANGED <<acc, pre, p2, build, contrib, total, polyVars, trVars, aggVars, sjVars, kzgVars>>

PcNext == PcMerge \/ PcVerify

SpecPairing == PcInit /\ [][PcNext]_vars

(***************************************************************************)
(* Specification of the counter: long chains of merges of a few checks.    *)
(***************************************************************************)
\* Largest sum of the contributors' counters that is followed.
MaxCount == 257

CountContributors ==
    {NewC, InvalidC, ProductsC(<<>>, FqkOne),
     RandC(1, <<<<1, 1>>>>, final_exponentiation(miller_loop(1, 1))[1])}

CountInit ==
    /\ PolyIdle /\ TrIdle /\ AggIdle /\ SjIdle /\ KzgIdle
    /\ build \in {"debug", "release"}
    /\ \E c \in CountContributors :
        /\ acc = c.chk
        /\ total = c.chk.non_randomized
    /\ contrib = <<>>
    \* before the first merge: as if `new` had been merged, which changes nothing
    /\ pre = acc /\ p2 = new
    /\ verdict = "none"

CountMerge ==
    \E c \in CountContributors :
        /\ total + c.chk.non_randomized <= MaxCount
        /\ PcMergeStep(c)
        /\ pre' = acc
        /\ p2' = c.chk
        /\ UNCHANGED contrib

CountNext == CountMerge \/ PcVerify

SpecCounter == CountInit /\ [][CountNext]_vars

(***************************************************************************)
(* Claims about PairingCheck                                               *)
(***************************************************************************)
Verified == verdict \in {"true", "false", "panic"}

\* C5: verify returns false whenever non_randomized > 1, and otherwise the
\* truth value of final_exponentiation(left) == right.
C5_VerifyReturnsComparison ==
    Verified =>
        verdict = IF acc.non_randomized > 1 THEN "false"
                  ELSE IF final_exponentiation(acc.left) = Some(acc.right) THEN "true"
                  ELSE "false"

\* C5, the part that holds: the same, for a left side whose final
\* exponentiation exists; and new_invalid().verify() is false.
C5_VerifyOnNonzeroLeft ==
    /\ (Verified /\ (acc.left # FqkZero \/ acc.non_randomized > 1)) =>
          verdict = IF acc.non_randomized > 1 THEN "false"
                    ELSE IF final_exponentiation(acc.left) = Some(acc.right) THEN "true"
                    ELSE "false"
    /\ (Verified /\ Len(contrib) = 1 /\ contrib[1].kind = "new_invalid") =>
          verdict = "false"

\* C6: over any sequence of merges the counter never decreases, is 0 only
\* if every contributor was randomized, and verify returns false whenever
\* the contributors carry two or more non-randomized counts.
C6_CounterKeepsCount ==
    /\ verdict # "overflow"
    /\ acc.non_randomized >= pre.non_randomized
    /\ (acc.non_randomized = 0 => total = 0)
    /\ (Verified /\ total >= 2) => verdict = "false"

TwoRandMerged ==
    /\ Verified
    /\ Len(contrib) = 2
    /\ contrib[1].kind = "rand" /\ contrib[2].kind = "rand"

\* C7 as stated: merge(rand(E1, T1), rand(E2, T2)) verifies if and only if
\* both equations hold.
C7_MergedRandIffBothHold ==
    TwoRandMerged => ((verdict = "true") <=> (contrib[1].holds /\ contrib[2].holds))

\* C7 as amended: it verifies if both equations hold, and does not verify
\* if exactly one of them fails and both expected values lie in GT.
C7_MergedRandVerifiesWhenBothHold ==
    TwoRandMerged =>
        /\ (contrib[1].holds /\ contrib[2].holds) => verdict = "true"
        /\ ( /\ contrib[1].holds # contrib[2].holds
             /\ contrib[1].gt /\ contrib[2].gt ) => verdict = "false"

C7_Witness ==
    /\ TwoRandMerged
    /\ contrib[1].holds /\ contrib[2].holds
    /\ acc.left \notin {FqkOne, FqkZero} /\ acc.right \notin {FqkOne, FqkZero}
    /\ verdict = "true"

\* C8: rand of an equation that holds verifies, for every nonzero
\* coefficient; and so does new() after any number of such checks were
\* merged into it.
C8_RandOfTrueEquationsVerifies ==
    ( /\ Verified
      /\ \A i \in 1..Len(contrib) : contrib[i].holds
      /\ \/ Len(contrib) = 1 /\ contrib[1].kind = "rand"
         \/ /\ contrib[1].kind = "new"
            /\ \A i \in 2..Len(contrib) : contrib[i].kind = "rand" )
    => verdict = "true"

C8_Witness ==
    /\ Verified
    /\ Len(contrib) = MaxMerges + 1
    /\ contrib[1].kind = "new"
    /\ \A i \in 2..Len(contrib) : contrib[i].kind = "rand" /\ contrib[i].holds
    /\ acc.left \notin {FqkOne, FqkZero} /\ acc.right \notin {FqkOne, FqkZero}
    /\ verdict = "true"

\* C9: after a.merge(b), a.left and a.right are the products of the old
\* sides with b's, and a.non_randomized is the sum of the two counters.
C9_MergeMultipliesAndSums ==
    /\ verdict # "overflow"
    /\ acc.left = FqkMul(pre.left, p2.left)
    /\ acc.right = FqkMul(pre.right, p2.right)
    /\ acc.non_randomized = pre.non_randomized + p2.non_randomized

\* C9, the part that holds: the two sides are the products, whichever of
\* them equals one.
C9_MergeMultipliesSides ==
    /\ acc.left = FqkMul(pre.left, p2.left)
    /\ acc.right = FqkMul(pre.right, p2.right)

(***************************************************************************)
(* Specification of the transcript: two transcripts are created and then   *)
(* fed independently.                                                      *)
(***************************************************************************)
\* Most elements appended to one transcript, and most challenges drawn.
MaxAppends == 2
MaxDraws == 2

\* The elements a caller appends here.
TrElems == {FrElem(1), FrElem(3), G1Elem(1)}

TrInit ==
    /\ PolyIdle /\ PcIdle /\ AggIdle /\ SjIdle /\ KzgIdle
    /\ trs = <<new_keccak_transcript, new_keccak_transcript>>
    /\ trApps = <<<<>>, <<>>>>
    /\ trDraws = <<<<>>, <<>>>>

TrAppend(k, element) ==
    /\ Len(trApps[k]) < MaxAppends
    /\ trs' = [trs EXCEPT ![k] = append(trs[k], element)]
    /\ trApps' = [trApps EXCEPT ![k] = Append(trApps[k], element)]
    /\ UNCHANGED <<trDraws, polyVars, pcVars, aggVars, sjVars, kzgVars>>

\* A draw is recorded with the number of appends made before it (after),
\* its ordinal among the draws (ord) and the value returned.
TrChallenge(k) ==
    /\ Len(trDraws[k]) < MaxDraws
    /\ LET d == challenge_scalar(trs[k])
       IN  /\ trs' = [trs EXCEPT ![k] = d.tr]
           /\ trDraws' = [trDraws EXCEPT ![k] = Append(trDraws[k],
                              [after |-> Len(trApps[k]),
                               ord |-> Len(trDraws[k]),
                               val |-> d.t])]
    /\ UNCHANGED <<trApps, polyVars, pcVars, aggVars, sjVars, kzgVars>>

TrNext ==
    \E k \in 1..2 :
        \/ \E element \in TrElems : TrAppend(k, element)
        \/ TrChallenge(k)

SpecTranscript == TrInit /\ [][TrNext]_vars

\* C3: two transcripts that were given the same elements in the same order
\* return the same challenge at every draw position (the same ordinal, after
\* the same appends).
C3_SameAppendsSameChallenge ==
    \A i \in 1..Len(trDraws[1]), j \in 1..Len(trDraws[2]) :
        LET d1 == trDraws[1][i]
            d2 == trDraws[2][j]
        IN  ( /\ d1.ord = d2.ord
              /\ SubSeq(trApps[1], 1, d1.after) = SubSeq(trApps[2], 1, d2.after) )
            => d1.val = d2.val

\* Both transcripts were given two elements and drew twice, at different
\* places of the same append sequence.
C3_Witness ==
    /\ Len(trApps[1]) = 2 /\ trApps[1] = trApps[2]
    /\ Len(trDraws[1]) = 2 /\ Len(trDraws[2]) = 2
    /\ trDraws[1][1].after = 1 /\ trDraws[2][1].after = 2
    /\ trDraws[1][2].after = 2
    /\ trDraws[1][2].val = trDraws[2][2].val

\* C10: for a non-empty challenge sequence the product form equals the
\* evaluation at z of the coefficient vector, which has 2^|x| entries.
C10_ProductFormEqualsCoefficients ==
    (Len(px) > 0 /\ pcoeffs # NotRun /\ peval # NotRun) =>
        /\ peval[1] = Some(Evaluate(pcoeffs[1], pz))
        /\ Len(pcoeffs[1]) = Pow2(Len(px))

C10_Witness ==
    /\ Len(px) = MaxChallenges /\ pz > 1 /\ pr > 1
    /\ \A i \in 1..Len(px) : px[i] > 1
    /\ pcoeffs # NotRun /\ peval # NotRun
    /\ peval[1] = Some(Evaluate(pcoeffs[1], pz))


(***************************************************************************)
(* Specification of aggregate_proofs: the caller hands in an SRS, proofs   *)
(* and a transcript; the run goes through the steps of the function, its   *)
(* parallel work completing in any order.                                  *)
(***************************************************************************)
\* Most proofs handed to aggregate_proofs.
MaxProofs == 4

\* The Groth16 proofs (A, B, C) the caller picks from.
ProofPool ==
    {[a |-> 1, b |-> 1, c |-> 1], [a |-> 2, b |-> 3, c |-> 1], [a |-> 3, b |-> 1, c |-> 4]}

\* The numbers of proofs an SRS is specialized to.
SrsSizes == {n \in 2..MaxProofs : is_power_of_two(n)}

\* The SRSs handed in: specialized to n, with the W key and the G1 tables
\* either holding the powers n..2n-1 and 0..2n-1, or the powers 0..n-1.
SrsInputs ==
    UNION {{ProverSRS(t[1], t[2], n, wlo, n, wlo + n) :
                t \in {<<2, 3>>, <<3, 4>>}, wlo \in {0, n}} : n \in SrsSizes}

\* The transcripts handed in: new, or after an append by the caller.
TranscriptInputs ==
    {new_keccak_transcript, append(new_keccak_transcript, FrElem(1))}

AggInit ==
    /\ PolyIdle /\ TrIdle /\ SjIdle /\ KzgIdle
    /\ acc = new /\ pre = new /\ p2 = new
    /\ verdict = "none" /\ contrib = <<>> /\ total = 0
    /\ build \in {"debug", "release"}
    /\ srs \in SrsInputs
    /\ proofs \in SeqsUpTo(ProofPool, MaxProofs)
    /\ \E tr \in TranscriptInputs :
        /\ run = NewRun(tr)
        /\ ref = NewRun(tr)
        /\ ver = [result |-> "none", v |-> NewVerification(tr, 0)]

AggFrame == UNCHANGED <<srs, proofs, polyVars, trVars, pcVars, sjVars, kzgVars>>

ProverStep == AggFrame /\ UNCHANGED ver

\* The second run takes the same step when it is at the same position.
RefStep(pos, next) == ref' = IF ref.pc = pos THEN next ELSE ref

AggValidate ==
    /\ run.pc = "start"
    /\ run' = StepValidate(run, srs, proofs)
    /\ RefStep("start", StepValidate(ref, srs, proofs))
    /\ ProverStep

AggCommit ==
    /\ run.pc = "commit"
    /\ \E s \in Schedules(Len(proofs)) : run' = StepCommit(run, srs, proofs, s)
    /\ RefStep("commit", StepCommit(ref, srs, proofs, InOrder(Len(proofs))))
    /\ ProverStep

AggChallenge ==
    /\ run.pc = "challenge"
    /\ run' = StepChallenge(run)
    /\ RefStep("challenge", StepChallenge(ref))
    /\ ProverStep

AggRescale ==
    /\ run.pc = "rescale"
    /\ \E s \in Schedules(Len(proofs)) : run' = StepRescale(run, srs, s)
    /\ RefStep("rescale", StepRescale(ref, srs, InOrder(Len(proofs))))
    /\ ProverStep

AggGipaPrelude ==
    /\ run.pc = "gipa"
    /\ run' = StepGipaPrelude(run, srs)
    /\ RefStep("gipa", StepGipaPrelude(ref, srs))
    /\ ProverStep

AggGipaRound ==
    /\ run.pc = "round"
    /\ Len(run.m_a) > 1
    /\ \E s \in Schedules(Len(proofs)) : run' = StepGipaRound(run, s)
    /\ RefStep("round", IF Len(ref.m_a) > 1
                        THEN StepGipaRound(ref, InOrder(Len(proofs)))
                        ELSE StepGipaFinal(ref))
    /\ ProverStep

AggGipaFinal ==
    /\ run.pc = "round"
    /\ ~ (Len(run.m_a) > 1)
    /\ run' = StepGipaFinal(run)
    /\ RefStep("round", IF Len(ref.m_a) > 1
                        THEN StepGipaRound(ref, InOrder(Len(proofs)))
                        ELSE StepGipaFinal(ref))
    /\ ProverStep

AggKzgChallenge ==
    /\ run.pc = "kzg"
    /\ run' = StepKzgChallenge(run)
    /\ RefStep("kzg", StepKzgChallenge(ref))
    /\ ProverStep

AggKzgOpen ==
    /\ run.pc = "open"
    /\ \E s \in RotatedSchedules(TableLen(srs)) : run' = StepKzgOpen(run, srs, s)
    /\ RefStep("open", StepKzgOpen(ref, srs, InOrder(TableLen(srs))))
    /\ ProverStep

AggFinish ==
    /\ run.pc = "check"
    /\ \E s \in Schedules(Len(proofs)) : run' = StepFinish(run, srs, build, s)
    /\ RefStep("check", StepFinish(ref, srs, build, InOrder(Len(proofs))))
    /\ ProverStep

\* The verifier is handed the proof the run returned, with the verifier's
\* half of the SRS and its own transcript; its rng starts at any seed.
AggVerify ==
    /\ run.pc = "done"
    /\ ver.result = "none"
    /\ \E seed \in 1..(P - 1) :
        ver' = verify_aggregate_proof(VerifierSRS(srs), AggregateProof(run),
                                      ver.v.transcript, seed)
    /\ UNCHANGED <<run, ref>>
    /\ AggFrame

Next ==
    \/ AggValidate \/ AggCommit \/ AggChallenge \/ AggRescale
    \/ AggGipaPrelude \/ AggGipaRound \/ AggGipaFinal
    \/ AggKzgChallenge \/ AggKzgOpen \/ AggFinish
    \/ AggVerify

Spec == AggInit /\ [][Next]_vars

Ended(x) == x.pc \in {"done", "err", "panic"}


(***************************************************************************)
(* Claims about aggregate_proofs                                           *)
(***************************************************************************)
\* The run has gone past the up-front checks: it is at the commitments or
\* beyond, or ended with something else than one of their errors.
PastValidation ==
    /\ run.pc # "start"
    /\ ~ ( /\ run.pc = "err"
           /\ run.result.msg \in {"invalid proof size < 2",
                                  "invalid proof size: not power of two",
                                  "SRS len != proofs len"} )

CountIsPowerOfTwo == \E k \in 0..MaxProofs : Pow2(k) = Len(proofs)

SrsFitsCount == has_correct_len(srs, Len(proofs))

\* C1: once aggregate_proofs has left its up-front checks, the result is
\* InvalidProof for a count below 2, InvalidProof for a count that is not a
\* power of two, InvalidSRS for a power of two >= 2 the SRS is not
\* specialized to, the first violated check deciding; and no run with a
\* count below 2 or not a power of two gets past the checks to the
\* commitments.
C1_ValidatesBeforeWork ==
    run.pc # "start" =>
        /\ Len(proofs) < 2 =>
              run.result = Result("InvalidProof", "invalid proof size < 2")
        /\ (Len(proofs) >= 2 /\ ~CountIsPowerOfTwo) =>
              run.result = Result("InvalidProof", "invalid proof size: not power of two")
        /\ (Len(proofs) >= 2 /\ CountIsPowerOfTwo /\ ~SrsFitsCount) =>
              run.result = Result("InvalidSRS", "SRS len != proofs len")
        /\ (Len(proofs) < 2 \/ ~CountIsPowerOfTwo \/ ~SrsFitsCount) =>
              /\ run.pc = "err"
              /\ run.a = <<>> /\ run.com_ab = GTPairOne /\ run.log = <<>>
        /\ PastValidation => (Len(proofs) >= 2 /\ CountIsPowerOfTwo /\ SrsFitsCount)

\* Four proofs with an SRS specialized to two: InvalidSRS.
C1_Witness ==
    /\ Len(proofs) = 4 /\ Len(srs.vkey.a) = 2
    /\ run.pc = "err"
    /\ run.result.kind = "InvalidSRS"

\* C4: the run whose parallel work completes in any order and the run on
\* the same inputs whose tasks complete in index order agree at every step
\* on the result, on the AggregateProof built so far and on every value
\* appended to or drawn from the transcript.
C4_SchedulingDoesNotShow ==
    /\ run.pc = ref.pc
    /\ run.result = ref.result
    /\ AggregateProof(run) = AggregateProof(ref)
    /\ run.log = ref.log
    /\ run.transcript = ref.transcript

\* Four proofs were aggregated to the end, with GIPA values that differ
\* from one another.
C4_Witness ==
    /\ run.pc = "done" /\ Len(proofs) = 4
    /\ run.result.kind = "Ok"
    /\ run.b_r # run.b
    /\ run.r_inv[2] # run.r_inv[3]
    /\ run.z_ab[1][1] # run.z_ab[1][2]


\* The SRS is specialized to n proofs: keys of n entries, the W key holding
\* the powers n..2n-1, G2 tables of n and G1 tables of 2n powers.
SpecializedTo(s, n) ==
    /\ has_correct_len(s, n)
    /\ Len(s.h_alpha_powers_table) = n /\ Len(s.h_beta_powers_table) = n
    /\ Len(s.g_alpha_powers_table) = 2 * n /\ Len(s.g_beta_powers_table) = 2 * n
    /\ s.wkey = Key(SubSeq(s.g_alpha_powers_table, n + 1, 2 * n),
                    SubSeq(s.g_beta_powers_table, n + 1, 2 * n))

CompletenessCase ==
    /\ Len(proofs) >= 2 /\ CountIsPowerOfTwo
    /\ SpecializedTo(srs, Len(proofs))

\* C2: for a power-of-two number >= 2 of proofs, an SRS specialized to that
\* number and a verifier transcript in the state the prover's transcript
\* started in, aggregate_proofs returns a proof and verify_aggregate_proof
\* accepts it.
C2_AggregateIsAccepted ==
    CompletenessCase =>
        /\ Ended(run) => run.result.kind = "Ok"
        /\ ver.result \in {"none", "Ok"}

\* C2, the part that holds: the only way aggregation does not return a
\* proof is the panic of an inversion of a zero challenge, and a returned
\* proof is accepted.
C2_AcceptedUnlessPanic ==
    CompletenessCase =>
        /\ Ended(run) =>
              \/ run.result.kind = "Ok"
              \/ /\ run.result.kind = "panic"
                 /\ run.result.msg \in {"inverse of r", "inverse of c_inv"}
        /\ ver.result \in {"none", "Ok"}

(***************************************************************************)
(* Claims about the rounds of GIPA                                         *)
(***************************************************************************)
\* A step of the run that is one full round of the GIPA loop.
GipaRoundTaken ==
    /\ run.pc = "round" /\ Len(run.m_a) > 1
    /\ run'.pc = "round" /\ run'.i = run.i + 1

Last(v) == v[Len(v)]

\* pair(V, W, A, B) on the working vectors and keys of a run.
CommitmentOf(x) == commitment_pair(x.vkey, x.wkey, x.m_a, x.m_b, InOrder(Len(x.m_a)))

\* C11: over every round of GIPA, the commitment of the folded vectors
\* under the folded keys is, in both coordinates, the commitment before the
\* round times tab_l^c times tab_r^c_inv, for the challenge pair c, c_inv of
\* the round (c * c_inv = 1).
C11_KeyCompressionIdentity ==
    [][GipaRoundTaken =>
         LET tab == Last(run'.comms_ab)
             c == Last(run'.challenges)
             c_inv == Last(run'.challenges_inv)
         IN  /\ FrMul(c, c_inv) = 1
             /\ \A j \in 1..2 :
                   CommitmentOf(run')[j] =
                       FqkMul(CommitmentOf(run)[j],
                              FqkMul(FqkPow(tab[1][j], c), FqkPow(tab[2][j], c_inv)))]_vars

\* Two rounds were taken on four proofs, the second with a challenge that
\* differs from its inverse and with cross commitments that are not one.
C11_Witness ==
    /\ Len(proofs) = 4 /\ run.pc = "round" /\ run.i = 2
    /\ run.challenges[2] # run.challenges_inv[2]
    /\ run.comms_ab[2][1] # GTPairOne /\ run.comms_ab[2][2] # GTPairOne
    /\ run.comms_ab[2][1] # run.comms_ab[2][2]

\* The KZG challenge z was drawn: it is the last entry of the log.
ZDrawn == run.pc \in {"open", "check", "done"}

\* The element was appended to the transcript before the draw of z.
AppendedBeforeZ(element) ==
    \E k \in 1..(Len(run.log) - 1) :
        /\ run.log[k].op = "append"
        /\ run.log[k].el.t = element.t
        /\ run.log[k].el.v = element.v

\* The eight values recorded in the proof for round k.
CrossTerms(x, k) ==
    <<FqkElem(x.z_ab[k][1]), FqkElem(x.z_ab[k][2]),
      G1Elem(x.z_c[k][1]), G1Elem(x.z_c[k][2]),
      GTPairElem(x.comms_ab[k][1]), GTPairElem(x.comms_ab[k][2]),
      GTPairElem(x.comms_c[k][1]), GTPairElem(x.comms_c[k][2])>>

RoundAbsorbed(k) == \A j \in 1..8 : AppendedBeforeZ(CrossTerms(run, k)[j])

\* C13: when the KZG challenge z is drawn, the eight cross terms recorded
\* for every round k = 1..log2(n) have been appended to the transcript.
C13_CrossTermsAbsorbedBeforeZ ==
    ZDrawn => \A k \in 1..Len(run.z_ab) : RoundAbsorbed(k)

\* C13, the part that holds: the same for the rounds after the first.
C13_LaterRoundsAbsorbedBeforeZ ==
    ZDrawn => \A k \in 2..Len(run.z_ab) : RoundAbsorbed(k)

\* The log entry is the operation op on the element.
IsEntry(entry, op, element) ==
    /\ entry.op = op
    /\ entry.el.t = element.t
    /\ entry.el.v = element.v

\* The entries of the log made before gipa_tipp_mipp is entered: two appends
\* and the draw of r.
LogBeforeGipa == 3

\* The entries of the log made by the prelude of gipa_tipp_mipp.
LogOfPrelude == 3

\* The entries of the log made by a round after the first: nine appends and
\* a draw.
LogOfRound == 10

\* Where the entries of round k >= 2 start in the log, less one.
RoundBase(k) == LogBeforeGipa + LogOfPrelude + LogOfRound * (k - 2)

\* The prelude appended ip_ab, then agg_c, then drew the challenge c_inv.
PreludeSchedule(c_inv) ==
    /\ IsEntry(run.log[LogBeforeGipa + 1], "append", FqkElem(run.ip_ab))
    /\ IsEntry(run.log[LogBeforeGipa + 2], "append", G1Elem(run.agg_c))
    /\ IsEntry(run.log[LogBeforeGipa + 3], "challenge", FrElem(c_inv))

\* Round k >= 2 appended the previous c_inv and its eight cross terms in
\* order, then drew its c_inv.
RoundSchedule(k) ==
    /\ IsEntry(run.log[RoundBase(k) + 1], "append", FrElem(run.challenges_inv[k - 1]))
    /\ \A j \in 1..8 :
          IsEntry(run.log[RoundBase(k) + 1 + j], "append", CrossTerms(run, k)[j])
    /\ IsEntry(run.log[RoundBase(k) + LogOfRound], "challenge",
               FrElem(run.challenges_inv[k]))

\* The draws logged since gipa_tipp_mipp was entered.
GipaDraws == {k \in (LogBeforeGipa + 1)..Len(run.log) : run.log[k].op = "challenge"}

\* C14: the challenge schedule of GIPA.  After any number of rounds the log
\* holds, after the entries made before GIPA, the prelude (ip_ab, agg_c,
\* draw), nothing for round 1, which folds with the prelude's challenge, and
\* for every later round the previous c_inv and the eight cross terms in
\* order followed by a draw; every c is the inverse of its c_inv; when the
\* loop is left exactly log2(n) challenges have been drawn.
C14_ChallengeSchedule ==
    run.pc \in {"round", "kzg"} =>
        LET rounds == Len(run.challenges_inv)
        IN  /\ Len(run.challenges) = rounds
            /\ Len(run.log) = LogBeforeGipa + LogOfPrelude
                                + (IF rounds = 0 THEN 0 ELSE LogOfRound * (rounds - 1))
            /\ PreludeSchedule(IF rounds = 0 THEN run.c_inv ELSE run.challenges_inv[1])
            /\ FrMul(run.c_chal, run.c_inv) = 1
            /\ \A k \in 1..rounds : FrMul(run.challenges[k], run.challenges_inv[k]) = 1
            /\ \A k \in 2..rounds : RoundSchedule(k)
            /\ Cardinality(GipaDraws) = (IF rounds = 0 THEN 1 ELSE rounds)
            /\ run.pc = "kzg" => Pow2(rounds) = Len(run.a)

\* GIPA ended on four proofs: two rounds, the second with its own draw, and
\* ip_ab and agg_c told apart by what was appended.
C14_Witness ==
    /\ run.pc = "kzg" /\ Len(run.a) = 4 /\ Len(run.challenges_inv) = 2
    /\ run.challenges_inv[1] # run.challenges_inv[2]
    /\ run.ip_ab # FqkOne /\ run.agg_c # 0

\* X_left + f * X_right on a vector of even length.
FoldedWith(x, f) ==
    [k \in 1..(Len(x) \div 2) |-> (x[k] + f * x[k + Len(x) \div 2]) % P]

KeyFoldedWith(key, f) == Key(FoldedWith(key.a, f), FoldedWith(key.b, f))

\* C15, as stated: in every round of GIPA, A, C and V are folded with c and
\* B, W and r with c_inv.
C15_FoldFactors ==
    [][GipaRoundTaken =>
         LET c == Last(run'.challenges)
             c_inv == Last(run'.challenges_inv)
         IN  /\ run'.m_a = FoldedWith(run.m_a, c)
             /\ run'.m_c = FoldedWith(run.m_c, c)
             /\ run'.vkey = KeyFoldedWith(run.vkey, c)
             /\ run'.m_b = FoldedWith(run.m_b, c_inv)
             /\ run'.wkey = KeyFoldedWith(run.wkey, c_inv)
             /\ run'.m_r = FoldedWith(run.m_r, c_inv)]_vars

\* C15, amended: in every round of GIPA, A, C and W are folded with c and
\* B, V and r with c_inv.
C15_FoldFactorsOfTheCode ==
    [][GipaRoundTaken =>
         LET c == Last(run'.challenges)
             c_inv == Last(run'.challenges_inv)
         IN  /\ run'.m_a = FoldedWith(run.m_a, c)
             /\ run'.m_c = FoldedWith(run.m_c, c)
             /\ run'.wkey = KeyFoldedWith(run.wkey, c)
             /\ run'.m_b = FoldedWith(run.m_b, c_inv)
             /\ run'.vkey = KeyFoldedWith(run.vkey, c_inv)
             /\ run'.m_r = FoldedWith(run.m_r, c_inv)]_vars

\* The first round was taken with a challenge that differs from its inverse,
\* and the two factors give different folds of A, of B and of both keys.
C15_Witness ==
    /\ run.pc = "round" /\ run.i = 1
    /\ run.challenges[1] # run.challenges_inv[1]
    /\ run.m_a # FoldedWith(run.a, run.challenges_inv[1])
    /\ run.m_b # FoldedWith(run.b_r, run.challenges[1])
    /\ run.vkey = KeyFoldedWith(srs.vkey, run.challenges_inv[1])
    /\ run.vkey # KeyFoldedWith(srs.vkey, run.challenges[1])
    /\ run.wkey = KeyFoldedWith(run.wkey_r_inv, run.challenges[1])
    /\ run.wkey # KeyFoldedWith(run.wkey_r_inv, run.challenges_inv[1])

\* The six working objects of GIPA (both rows of the two keys) have the
\* length len.
WorkingLengths(x, len) ==
    /\ Len(x.m_a) = len /\ Len(x.m_b) = len /\ Len(x.m_c) = len /\ Len(x.m_r) = len
    /\ Len(x.vkey.a) = len /\ Len(x.vkey.b) = len
    /\ Len(x.wkey.a) = len /\ Len(x.wkey.b) = len

\* The six sequences GIPA records have the length len.
RecordedLengths(x, len) ==
    /\ Len(x.comms_ab) = len /\ Len(x.comms_c) = len
    /\ Len(x.z_ab) = len /\ Len(x.z_c) = len
    /\ Len(x.challenges) = len /\ Len(x.challenges_inv) = len

\* GIPA has returned.
GipaReturned == run.pc \in {"kzg", "open", "check", "done"}

\* At the head of the loop after i rounds: equal lengths n / 2^i, i entries
\* recorded.  After the loop: length 1, log2(n) entries, nproofs = n.  The
\* loop is left neither by a failed assertion nor by a key of the wrong
\* length.
GipaLengths ==
    /\ run.pc = "round" =>
          /\ WorkingLengths(run, Len(run.m_a))
          /\ Pow2(run.i) * Len(run.m_a) = Len(proofs)
          /\ RecordedLengths(run, run.i)
    /\ GipaReturned =>
          /\ WorkingLengths(run, 1)
          /\ Pow2(run.i) = Len(proofs)
          /\ RecordedLengths(run, run.i)
          /\ AggregateProof(run).tmipp.gipa.nproofs = Len(proofs)
    /\ run.result.msg # "assert"
    /\ run.result.kind # "InvalidKeyLength"

\* A round halves the length of the working objects and adds one to the
\* count of rounds.
GipaRoundHalves ==
    GipaRoundTaken =>
        /\ 2 * Len(run'.m_a) = Len(run.m_a)
        /\ WorkingLengths(run', Len(run'.m_a))
        /\ RecordedLengths(run', run.i + 1)

ValidationErrors ==
    {Result("InvalidProof", "invalid proof size < 2"),
     Result("InvalidProof", "invalid proof size: not power of two"),
     Result("InvalidSRS", "SRS len != proofs len")}

\* The transcript the caller handed in: the verifier holds a copy of it
\* until it is started.
CallersTranscript == ver.v.transcript

\* C18: when aggregate_proofs returned an error of its up-front validation,
\* it has appended nothing and drawn nothing: the transcript is in the state
\* the caller handed in.
C18_ValidationErrorKeepsTranscript ==
    run.result \in ValidationErrors =>
        /\ run.pc = "err"
        /\ ver.result = "none"
        /\ run.transcript = CallersTranscript
        /\ run.log = <<>>

\* Three proofs were handed in with a transcript the caller had appended
\* to: the count is not a power of two.
C18_Witness ==
    /\ Len(proofs) = 3
    /\ run.result = Result("InvalidProof", "invalid proof size: not power of two")
    /\ run.transcript = append(new_keccak_transcript, FrElem(1))

\* A, B and C as they are in the proofs handed in.
UnscaledA == [k \in 1..Len(proofs) |-> proofs[k].a]
UnscaledB == [k \in 1..Len(proofs) |-> proofs[k].b]
UnscaledC == [k \in 1..Len(proofs) |-> proofs[k].c]

\* The commitments to the unscaled A, B and C, as elements.
UnscaledComAB ==
    GTPairElem(commitment_pair(srs.vkey, srs.wkey, UnscaledA, UnscaledB, InOrder(Len(proofs))))
UnscaledComC ==
    GTPairElem(commitment_single_g1(srs.vkey, UnscaledC, InOrder(Len(proofs))))

\* No rescaled value has been computed.
NothingRescaled ==
    /\ run.r_vec = <<>> /\ run.r_inv = <<>> /\ run.b_r = <<>>
    /\ run.ip_ab = FqkOne /\ run.agg_c = 0 /\ run.wkey_r_inv = NoKey

\* C20: the first transcript operations of aggregate_proofs are the append
\* of com_ab, the append of com_c, both commitments to the unscaled A, B, C,
\* and the draw of r, which is the challenge of the caller's transcript
\* after these two appends; up to and including the draw no rescaled value
\* has been computed, and B^r is computed from the r drawn.
C20_RDrawnAfterCommitments ==
    /\ run.log # <<>> =>
          /\ Len(run.log) >= 3
          /\ IsEntry(run.log[1], "append", UnscaledComAB)
          /\ IsEntry(run.log[2], "append", UnscaledComC)
          /\ IsEntry(run.log[3], "challenge", FrElem(run.r))
          /\ ver.result = "none" =>
                challenge_scalar(append(append(CallersTranscript, UnscaledComAB),
                                        UnscaledComC)).t = Some(run.r)
    /\ run.log = <<>> => run.r = 0 /\ NothingRescaled
    /\ run.pc = "rescale" => Len(run.log) = 3 /\ NothingRescaled
    /\ run.b_r # <<>> =>
          /\ Len(run.log) >= 3
          /\ run.b_r = [k \in 1..Len(proofs) |-> G2Mul(UnscaledB[k], FrPow(run.r, k - 1))]

\* r was drawn, not zero and not one, after two commitments that differ,
\* and the rescaled B differs from B.
C20_Witness ==
    /\ run.pc = "gipa" /\ run.r \in 2..(P - 1)
    /\ UnscaledComAB # UnscaledComC
    /\ run.b_r # UnscaledB

(***************************************************************************)
(* Claims about the KZG openings                                           *)
(***************************************************************************)
\* Both openings were produced.
Opened == run.pc \in {"check", "done"}

\* The inverse of r_shift, as prove_tipp_mipp hands it to prove_commitment_w.
RInverse == FrInverse(run.r_vec[2])[1]

\* The shifted polynomial prove_commitment_w built in this run.
ShiftedPolynomial == from_coefficients_vec(fwcoeffs(run.challenges, RInverse))

\* The evaluation value prove_commitment_w handed to create_kzg_opening.
HandedValue == fwz(Len(srs.g_alpha_powers_table), run.challenges, RInverse, run.z)

\* C16: whenever the W opening is produced, the value handed to
\* create_kzg_opening, f(z) * z^n with n the length of the table, is the
\* value at z of the shifted polynomial the function built.
C16_HandedValueIsValueOfShifted ==
    Opened => HandedValue = Evaluate(ShiftedPolynomial, run.z)

\* C16, what holds instead: the polynomial built is f shifted by the number
\* of coefficients of f, half the length of the table, and its value at z
\* is f(z) times z to that number.
C16_ShiftIsHalfTheTable ==
    Opened =>
        /\ Len(srs.g_alpha_powers_table) = 2 * Len(run.a)
        /\ Evaluate(ShiftedPolynomial, run.z)
               = fwz(Len(run.a), run.challenges, RInverse, run.z)

\* C16, why the run is not harmed: the opening is the one the value of the
\* shifted polynomial gives, the quotient by X - z not depending on the
\* constant that is subtracted.
C16_OpeningIgnoresTheValue ==
    Opened =>
        run.wkey_opening =
            create_kzg_opening(srs.g_alpha_powers_table, srs.g_beta_powers_table,
                               ShiftedPolynomial, Evaluate(ShiftedPolynomial, run.z),
                               run.z, InOrder(TableLen(srs))).opening

(***************************************************************************)
(* Claims about the challenges of a run                                    *)
(***************************************************************************)
\* The scalars drawn by the run so far (P stands for an aborted draw).
DrawnScalars == {run.log[k].el.v : k \in {j \in 1..Len(run.log) : run.log[j].op = "challenge"}}

\* The panics of a run that come from a drawn challenge.
ChallengePanics == {"from_random_bytes", "inverse of r", "inverse of r_shift", "inverse of c_inv"}

\* C17: challenge_scalar never returns zero and never aborts, so no
\* inversion of a drawn challenge fails: the run never ends in a panic of a
\* draw or of an inversion.
C17_ChallengesAreInvertible ==
    /\ DrawnScalars \subseteq 1..(P - 1)
    /\ ~ (run.pc = "panic" /\ run.result.msg \in ChallengePanics)

\* C17, what holds instead: a draw does not abort, and the run panics on an
\* inversion exactly when it drew zero for r or for a c_inv.
C17_PanicsOnZeroDraw ==
    /\ DrawnScalars \subseteq 0..(P - 1)
    /\ run.result.msg # "from_random_bytes"
    /\ (run.pc = "panic" /\ run.result.msg \in ChallengePanics) => 0 \in DrawnScalars
    /\ (0 \in DrawnScalars /\ run.pc \notin {"rescale", "panic"})
           => /\ run.pc \in {"open", "check", "done", "err"}
              /\ run.z = 0

\* The step of the run in which z is drawn: GIPA has returned before it.
ZDrawStep == run.pc = "kzg" /\ run'.pc = "open"

\* The five elements appended before the draw of z, for the challenge c.
ZElements(x, c) ==
    <<FrElem(c), G2Elem(x.final_vkey[1]), G2Elem(x.final_vkey[2]),
      G1Elem(x.final_wkey[1]), G1Elem(x.final_wkey[2])>>

\* The step that draws z reverses both challenge lists, appends the
\* challenge c of the last round of GIPA (the inverse of the c_inv drawn
\* last) and the four coordinates of the final keys, and draws z at once.
ZDrawnAfterFinalKeys ==
    ZDrawStep =>
        /\ run'.challenges = Reverse(run.challenges)
        /\ run'.challenges_inv = Reverse(run.challenges_inv)
        /\ run'.challenges[1] = Last(run.challenges)
        /\ FrMul(run'.challenges[1], Last(run.log).el.v) = 1
        /\ Last(run.log).op = "challenge"
        /\ Len(run'.log) = Len(run.log) + 6
        /\ SubSeq(run'.log, 1, Len(run.log)) = run.log
        /\ \A j \in 1..5 :
              IsEntry(run'.log[Len(run.log) + j], "append",
                      ZElements(run', run'.challenges[1])[j])
        /\ IsEntry(Last(run'.log), "challenge", FrElem(run'.z))
        /\ run'.final_vkey = run.final_vkey /\ run'.final_wkey = run.final_wkey

\* The polynomial of a key: the coefficients under the challenges and the
\* shift.
KeyPolynomial(challenges, shift) ==
    from_coefficients_vec(polynomial_coefficients_from_transcript(challenges, shift))

\* The opening at z of the polynomial over the two tables.
OpeningAt(alpha, beta, poly, z) ==
    create_kzg_opening(alpha, beta, poly, Evaluate(poly, z), z, InOrder(Len(alpha))).opening

\* The W polynomial: the key polynomial shifted by its number of
\* coefficients.
ShiftedKeyPolynomial(challenges, shift) ==
    from_coefficients_vec(
        [i \in 1..Len(polynomial_coefficients_from_transcript(challenges, shift)) |-> 0]
        \o polynomial_coefficients_from_transcript(challenges, shift))

\* Once both openings exist, V is opened at z under the reversed
\* challenges_inv with shift 1 and W at z under the reversed challenges with
\* the shift r^-1.
OpenedAtZ ==
    Opened =>
        /\ FrMul(RInverse, run.r) = 1
        /\ run.vkey_opening =
              OpeningAt(srs.h_alpha_powers_table, srs.h_beta_powers_table,
                        KeyPolynomial(run.challenges_inv, 1), run.z)
        /\ run.wkey_opening =
              OpeningAt(srs.g_alpha_powers_table, srs.g_beta_powers_table,
                        ShiftedKeyPolynomial(run.challenges, RInverse), run.z)
        /\ IsEntry(Last(run.log), "challenge", FrElem(run.z))

\* C22: z is drawn after GIPA has returned and both challenge lists have
\* been reversed, right after the appends of challenges[0] of the reversed
\* list (the c of the last round, not its inverse), final_vkey.0,
\* final_vkey.1, final_wkey.0 and final_wkey.1; then V is opened at z under
\* the reversed challenges_inv with shift 1 and W at z under the reversed
\* challenges with shift r^-1.
C22_ZAfterFinalKeysThenOpenings == []OpenedAtZ /\ [][ZDrawnAfterFinalKeys]_vars

\* Both openings exist on four proofs; the two challenges differ, so the
\* reversal shows, and the challenge appended differs from its inverse.
C22_Witness ==
    /\ Opened /\ Len(proofs) = 4
    /\ run.challenges[1] # run.challenges[2]
    /\ run.challenges[1] # run.challenges_inv[1]
    /\ run.log[Len(run.log) - 5].el.v = run.challenges[1]
    /\ run.r \in 2..(P - 1)

(***************************************************************************)
(* Claims about the rescaling by r                                         *)
(***************************************************************************)
\* B'[i] = r^i * B[i], i counted from 0.
RescaledB(b, r) == [k \in 1..Len(b) |-> G2Mul(b[k], FrPow(r, k - 1))]

\* W scaled element-wise by r^-i, i counted from 0, for r # 0.
RescaledW(w, r) ==
    Key([k \in 1..Len(w.a) |-> G1Mul(w.a[k], FrInverse(FrPow(r, k - 1))[1])],
        [k \in 1..Len(w.b) |-> G1Mul(w.b[k], FrInverse(FrPow(r, k - 1))[1])])

\* pair(V, W, A, B) with the tasks in index order.
PairOf(v, w, a, b) == commitment_pair(v, w, a, b, InOrder(Len(a)))

\* The commitments exist: the proofs passed validation, and A, B and both
\* keys have the same length.
Committed == run.a # <<>>

\* C23: for every r # 0, pair(V, W, A, B), the commitment computed before r
\* is drawn, equals pair(V, W', A, B') with B'[i] = r^i * B[i] and W' the
\* key W scaled by r^-i; the run rescales B and W in this way with the r it
\* drew, and the debug assertion at the end of aggregate_proofs never
\* fails.
C23_RescalingIdentity ==
    /\ Committed =>
          /\ run.com_ab = PairOf(srs.vkey, srs.wkey, run.a, run.b)
          /\ \A r \in 1..(P - 1) :
                PairOf(srs.vkey, RescaledW(srs.wkey, r), run.a, RescaledB(run.b, r))
                    = PairOf(srs.vkey, srs.wkey, run.a, run.b)
    /\ run.wkey_r_inv # NoKey =>
          /\ run.r # 0
          /\ run.b_r = RescaledB(run.b, run.r)
          /\ run.wkey_r_inv = RescaledW(srs.wkey, run.r)
          /\ run.com_ab = PairOf(srs.vkey, run.wkey_r_inv, run.a, run.b_r)
    /\ run.result.msg # "debug_assert"

\* A debug build returned Ok after a rescaling that changed B and W, of a
\* commitment that is not one.
C23_Witness ==
    /\ run.pc = "done" /\ build = "debug"
    /\ run.r \in 2..(P - 1)
    /\ run.b_r # run.b /\ run.wkey_r_inv # srs.wkey
    /\ run.com_ab[1] # FqkOne /\ run.com_ab[2] # FqkOne

(***************************************************************************)
(* Specification of the SnarkJS conversions: a JSON proof or verifying key *)
(* is handed in and converted.                                              *)
(***************************************************************************)
\* Most coordinate strings of a G1 point of the document.
MaxCoords == 3

\* The coordinate strings: "1", "2", "10", the empty string, "x" and "01".
SjStrings == {<<"1">>, <<"2">>, <<"1", "0">>, <<>>, <<"x">>, <<"0", "1">>}

\* G1 points of a document: up to MaxCoords coordinate strings.
SjG1 == SeqsUpTo(SjStrings, MaxCoords)

SjGoodG1 == <<<<"1">>, <<"2">>, <<"1">>>>
SjGoodPair == <<<<"1">>, <<"2">>>>
SjGoodG2 == <<SjGoodPair, SjGoodPair, <<<<"1">>, <<"0">>>>>>

\* G2 points of a document: well formed, with a string that is no number,
\* with two coordinates, and with a coordinate of one string.
SjG2 ==
    {SjGoodG2,
     <<SjGoodPair, <<<<"1">>, <<"x">>>>, SjGoodPair>>,
     <<SjGoodPair, SjGoodPair>>,
     <<SjGoodPair, SjGoodPair, <<<<"1">>>>>>}

SjProofs ==
    {[kind |-> "proof", pi_a |-> a, pi_b |-> b, pi_c |-> c] :
        a \in SjG1, b \in SjG2, c \in {SjGoodG1, <<<<"1">>, <<"2">>>>}}

SjVKs ==
    {[kind |-> "vk", vk_alpha_1 |-> a, vk_beta_2 |-> b,
      vk_gamma_2 |-> SjGoodG2, vk_delta_2 |-> SjGoodG2, ic |-> ic] :
        a \in SjG1, b \in SjG2,
        ic \in {<<>>, <<SjGoodG1>>, <<SjGoodG1, <<<<"1">>, <<"x">>, <<"1">>>>>>}}

SjInit ==
    /\ PolyIdle /\ TrIdle /\ PcIdle /\ AggIdle /\ KzgIdle
    /\ json \in SjProofs \cup SjVKs
    /\ converted = NotRun

\* let proof: Proof<Bn254> = snarkjs_proof.into()
SjProofFrom ==
    /\ converted = NotRun /\ json.kind = "proof"
    /\ converted' = ProofFrom(json)
    /\ UNCHANGED <<json, polyVars, trVars, pcVars, aggVars, kzgVars>>

\* let vk: VerifyingKey<Bn254> = snarkjs_vk.into()
SjVerifyingKeyFrom ==
    /\ converted = NotRun /\ json.kind = "vk"
    /\ converted' = VerifyingKeyFrom(json)
    /\ UNCHANGED <<json, polyVars, trVars, pcVars, aggVars, kzgVars>>

SjNext == SjProofFrom \/ SjVerifyingKeyFrom

SpecSnarkjs == SjInit /\ [][SjNext]_vars

\* A G1 point of the document is malformed: fewer than three coordinates,
\* or one of the first three is not the decimal string of a field element.
MalformedG1(g1) ==
    \/ Len(g1) < 3
    \/ \E k \in 1..3 : Fq_from_str(g1[k]) = None

\* The same for a G2 point: fewer than three coordinates, a coordinate of
\* fewer than two strings, or a string that is no field element.
MalformedG2(g2) ==
    \/ Len(g2) < 3
    \/ \E k \in 1..3 : Len(g2[k]) < 2 \/ \E j \in 1..2 : Fq_from_str(g2[k][j]) = None

Malformed(doc) ==
    IF doc.kind = "proof"
    THEN MalformedG1(doc.pi_a) \/ MalformedG2(doc.pi_b) \/ MalformedG1(doc.pi_c)
    ELSE \/ MalformedG1(doc.vk_alpha_1) \/ MalformedG2(doc.vk_beta_2)
         \/ MalformedG2(doc.vk_gamma_2) \/ MalformedG2(doc.vk_delta_2)
         \/ \E k \in 1..Len(doc.ic) : MalformedG1(doc.ic[k])

\* C12: the conversion of a SnarkJS proof or verifying key with a malformed
\* point ends in an error value reported to the caller, never in a panic.
C12_MalformedIsAnErrorValue ==
    (converted # NotRun /\ Malformed(json)) =>
        /\ converted.kind # "panic"
        /\ converted.kind = "error"

\* C12, what the code does: a well-formed document converts to a value, a
\* malformed one ends in a panic.
C12_MalformedPanics ==
    converted # NotRun =>
        converted.kind = IF Malformed(json) THEN "panic" ELSE "value"

(***************************************************************************)
(* Specification of create_kzg_opening on its own: two power tables, a     *)
(* polynomial, an evaluation value and a challenge are handed in.          *)
(***************************************************************************)
\* Most coefficients of the polynomial handed in.
MaxCoeffs == 3

\* Longest power table handed in.
MaxTable == 3

\* The polynomials handed in: DensePolynomial keeps no trailing zero.
KzgPolys == {from_coefficients_vec(c) : c \in SeqsUpTo(0..(P - 1), MaxCoeffs)}

\* The challenges handed in.
KzgChallenges == {0, 2, 3}

\* The calls: the alpha and beta tables hold the powers of 2 and of 3 and
\* may differ in length; the evaluation value is the value of the
\* polynomial at the challenge, or that value plus one.
KzgCalls ==
    {[alpha |-> PowersTable(2, 0, la), beta |-> PowersTable(3, 0, lb),
      poly |-> f, eval_poly |-> FrAdd(Evaluate(f, z), d), z |-> z] :
        la \in 0..MaxTable, lb \in 0..MaxTable, f \in KzgPolys,
        z \in KzgChallenges, d \in 0..1}

KzgInit ==
    /\ PolyIdle /\ TrIdle /\ PcIdle /\ AggIdle /\ SjIdle
    /\ kzgCall \in KzgCalls
    /\ kzgResult = NotRun

\* create_kzg_opening(alpha, beta, poly, eval_poly, &z), the conversions of
\* the quotient's coefficients completing in any rotated order.
KzgOpen ==
    /\ kzgResult = NotRun
    /\ \E s \in RotatedSchedules(Len(kzgCall.alpha)) \cup {InOrder(Len(kzgCall.alpha))} :
          kzgResult' = create_kzg_opening(kzgCall.alpha, kzgCall.beta, kzgCall.poly,
                                          kzgCall.eval_poly, kzgCall.z, s)
    /\ UNCHANGED <<kzgCall, polyVars, trVars, pcVars, aggVars, sjVars>>

KzgNext == KzgOpen

SpecKzg == KzgInit /\ [][KzgNext]_vars

\* The coefficients of the quotient of poly - eval_poly by X - z, padded to
\* the length of the alpha table.
PaddedQuotient(call) ==
    resize(PolyDivLinear(PolySub(call.poly, from_coefficients_vec(<<call.eval_poly>>)),
                         call.z),
           Len(call.alpha))

\* The opening of the call: the two multi-scalar multiplications of the
\* padded quotient over the alpha and the beta table.
OpeningOf(call) ==
    <<multi_scalar_mul(call.alpha, PaddedQuotient(call)),
      multi_scalar_mul(call.beta, PaddedQuotient(call))>>

\* The padded quotient has a length different from a power table.
QuotientMisfit(call) ==
    \/ Len(PaddedQuotient(call)) # Len(call.alpha)
    \/ Len(PaddedQuotient(call)) # Len(call.beta)

\* C21: create_kzg_opening returns InvalidSRS exactly when the padded
\* coefficient vector of the quotient has a length different from the power
\* table, and in every other case the opening, the two multi-scalar
\* multiplications of the quotient over the alpha and the beta table.
C21_InvalidSRSIffQuotientMisfit ==
    kzgResult # NotRun =>
        IF QuotientMisfit(kzgCall)
        THEN kzgResult.err = "InvalidSRS"
        ELSE kzgResult.err = "none" /\ kzgResult.opening = OpeningOf(kzgCall)

\* C21, what the code does: InvalidSRS exactly when the polynomial handed
\* in has a number of coefficients different from the length of the alpha
\* table; else a panic exactly when the beta table has another length than
\* the alpha table; else the opening.
C21_OutcomesOfTheCode ==
    kzgResult # NotRun =>
        IF Len(kzgCall.poly) # Len(kzgCall.alpha)
        THEN kzgResult.err = "InvalidSRS"
        ELSE IF Len(kzgCall.beta) # Len(kzgCall.alpha)
        THEN kzgResult.err = "panic"
        ELSE kzgResult.err = "none" /\ kzgResult.opening = OpeningOf(kzgCall)

\* The padded quotient has the length of the alpha table in every call.
C21_PaddedQuotientFitsAlpha ==
    kzgCall # NotRun => Len(PaddedQuotient(kzgCall)) = Len(kzgCall.alpha)

====
